---------------------------- MODULE Spec2Model ----------------------------
(***************************************************************************)
(* A model of the synchronization and transfer subsystem of syncmd:        *)
(*   - the chunked file transfer of src/file_transfer.rs: the receiving    *)
(*     FileTransferManager (active_transfers, the staging files it writes) *)
(*     and the sending loop of send_file;                                  *)
(*   - the snapshot comparison of src/indexer.rs and src/sync.rs.          *)
(*                                                                         *)
(* Byte strings (file contents, chunk payloads) are kept run-length        *)
(* encoded: a sequence of runs [b |-> byte, n |-> count], n > 0, adjacent  *)
(* runs of different bytes.  The encoding is exact, so sizes keep the      *)
(* values they have in the program (CHUNK_SIZE is 65536).                  *)
(***************************************************************************)
EXTENDS Integers, Sequences, FiniteSets, TLC

\* ------------------------------------------------------------------ bounds
\* The most chunks a StartTransfer header of the environment declares.
MaxChunks == 2
\* The most messages a peer delivers to the receiver in one behaviour.
\* (chunks_received, chunk_index and header.chunks are u32 in the program;
\* they would wrap after 4294967296 chunks, far above this bound.)
MaxMsgs == 4
\* Modification times of file records are 0..MaxTime, in ticks of
\* 1/TicksPerSecond second since the epoch.
MaxTime == 2
TicksPerSecond == 2

\* ------------------------------------------------------- program constants
CHUNK_SIZE == 65536

\* ---------------------------------------------------------- byte strings
RECURSIVE BLen(_)
BLen(c) == IF c = <<>> THEN 0 ELSE Head(c).n + BLen(Tail(c))

RECURSIVE BNorm(_)
BNorm(c) ==
    IF c = <<>> THEN <<>>
    ELSE IF Head(c).n = 0 THEN BNorm(Tail(c))
    ELSE LET r == BNorm(Tail(c)) IN
         IF r # <<>> /\ Head(r).b = Head(c).b
         THEN <<[b |-> Head(c).b, n |-> Head(c).n + Head(r).n]>> \o Tail(r)
         ELSE <<Head(c)>> \o r

BCat(c, d) == BNorm(c \o d)

RECURSIVE BTake(_, _)
BTake(c, k) ==
    IF k <= 0 \/ c = <<>> THEN <<>>
    ELSE IF Head(c).n <= k THEN <<Head(c)>> \o BTake(Tail(c), k - Head(c).n)
    ELSE <<[b |-> Head(c).b, n |-> k]>>

RECURSIVE BDrop(_, _)
BDrop(c, k) ==
    IF k <= 0 \/ c = <<>> THEN c
    ELSE IF Head(c).n <= k THEN BDrop(Tail(c), k - Head(c).n)
    ELSE <<[b |-> Head(c).b, n |-> Head(c).n - k]>> \o Tail(c)

\* One bit of the first byte flipped (the lowest one).
FlipBit(c) ==
    LET h == Head(c)
        f == IF h.b % 2 = 0 THEN h.b + 1 ELSE h.b - 1
    IN  BNorm(<<[b |-> f, n |-> 1], [b |-> h.b, n |-> h.n - 1]>> \o Tail(c))

\* write(2) of d through a handle at byte offset off: bytes before off are
\* kept (a hole is zero-filled), bytes after the written range are kept.
WriteAt(c, off, d) ==
    LET have == BLen(c)
        pre  == IF off <= have THEN BTake(c, off)
                ELSE c \o <<[b |-> 0, n |-> off - have]>>
    IN  BNorm(pre \o d \o BDrop(c, off + BLen(d)))

\* blake3::hash(..).to_string(): the digest as a function of the bytes;
\* distinct byte strings are taken to have distinct digests.
blake3(d) == <<"blake3", BNorm(d)>>

\* ------------------------------------------------------------- receiver
\* Transfer ids, and the path strings StartTransfer headers carry.
IdList == <<"t1", "t2">>
Ids == {IdList[i] : i \in 1..Len(IdList)}
NameList == <<"a.md", "b.md">>
Names == {NameList[i] : i \in 1..Len(NameList)}

\* A path of the receiver's file system: base_path.join(header.path), or
\* that path with ".tmp" appended.
FinalPath(name) == [name |-> name, tmp |-> FALSE]
TempPath(path) == [name |-> path.name, tmp |-> TRUE]

\* Result<(), SyncError> of receive_file / send_file.
Ok == [ok |-> TRUE, kind |-> "", msg |-> ""]
Err(kind, msg) == [ok |-> FALSE, kind |-> kind, msg |-> msg]
NoResult == [ok |-> FALSE, kind |-> "pending", msg |-> ""]

\* FileTransferMessage
StartTransfer(id, path, size, chunks) ==
    [type |-> "StartTransfer", transfer_id |-> id, path |-> path,
     size |-> size, chunks |-> chunks]
Chunk(id, index, data, checksum) ==
    [type |-> "Chunk", transfer_id |-> id, chunk_index |-> index,
     data |-> data, checksum |-> checksum]
\* An acknowledgement that names the first chunk whatever chunk it answers.
AckChunkFirst(id, index) ==
    [type |-> "AckChunk", transfer_id |-> id, chunk_index |-> 0]
AckChunk(id, index) ==
    [type |-> "AckChunk", transfer_id |-> id, chunk_index |-> index]
CompleteTransfer(id) == [type |-> "CompleteTransfer", transfer_id |-> id]
TransferError(id, error) ==
    [type |-> "TransferError", transfer_id |-> id, error |-> error]
\* What stream.read / serde_json::from_slice give instead of a message:
\* zero bytes, bytes that are no message, an I/O error.
ReadEof == [type |-> "eof"]
ReadGarbage == [type |-> "garbage"]
ReadIoError == [type |-> "ioerror"]
\* Nothing was read.
NoMessage == [type |-> "none"]

VARIABLES
    active,     \* active_transfers: transfer id -> FileTransferState
    fs,         \* the receiver's directory: path -> inode
    inodes,     \* inode -> [data, readonly]
    rpc,        \* "idle", or "loop" while receive_file runs
    rres,       \* what the last receive_file returned
    s2c,        \* the messages the receiver has written to the stream
    ev,         \* what the last iteration of receive_file did
    verified,   \* history: active id -> the chunk indices verified for it
    aborted     \* history: the active ids that had a checksum mismatch

rvars == <<active, fs, inodes, rpc, rres, s2c, ev, verified, aborted>>

NoEvent == [kind |-> "none", id |-> ""]
Event(kind, id) == [kind |-> kind, id |-> id]

\* The inodes some path or some open staging handle still refers to.
Live(f, a) == {f[p] : p \in DOMAIN f} \cup {a[i].inode : i \in DOMAIN a}
FreshInode(ino) == CHOOSE i \in 1..(Cardinality(DOMAIN ino) + 1) : i \notin DOMAIN ino

\* Inode numbers carry no meaning: after every step the live inodes are
\* numbered in the order in which the paths and then the handles refer to
\* them, and the others are dropped.
Slots == 1..(2 * Len(NameList) + Len(IdList))
SlotRef(f, a, k) ==
    IF k <= Len(NameList)
    THEN (IF FinalPath(NameList[k]) \in DOMAIN f
          THEN f[FinalPath(NameList[k])] ELSE 0)
    ELSE IF k <= 2 * Len(NameList)
    THEN (IF TempPath(FinalPath(NameList[k - Len(NameList)])) \in DOMAIN f
          THEN f[TempPath(FinalPath(NameList[k - Len(NameList)]))] ELSE 0)
    ELSE (IF IdList[k - 2 * Len(NameList)] \in DOMAIN a
          THEN a[IdList[k - 2 * Len(NameList)]].inode ELSE 0)
\* The directory, the inode table and the transfers, renumbered.
Canon(ino, f, a) ==
    LET live == Live(f, a)
        ref == [k \in Slots |-> SlotRef(f, a, k)]
        first == [i \in live |->
                    CHOOSE k \in Slots : ref[k] = i /\ \A j \in 1..(k - 1) : ref[j] # i]
        rank == [i \in live |-> Cardinality({j \in live : first[j] <= first[i]})]
    IN  [fs |-> [q \in DOMAIN f |-> rank[f[q]]],
         inodes |-> [r \in 1..Cardinality(live) |->
                       ino[CHOOSE i \in live : rank[i] = r]],
         active |-> [i \in DOMAIN a |-> [a[i] EXCEPT !.inode = rank[@]]]]

RecvInit ==
    /\ active = << >>
    /\ fs = << >>
    /\ inodes = << >>
    /\ rpc = "idle"
    /\ rres = NoResult
    /\ s2c = <<>>
    /\ ev = NoEvent
    /\ verified = [i \in Ids |-> {}]
    /\ aborted = {}

\* std::fs::File::create(path): the file at path truncated, or a new file.
FileCreate(path) ==
    IF path \in DOMAIN fs
    THEN [inode |-> fs[path],
          fs |-> fs,
          inodes |-> [inodes EXCEPT ![fs[path]].data = <<>>]]
    ELSE LET i == FreshInode(inodes) IN
         [inode |-> i,
          fs |-> [p \in DOMAIN fs \cup {path} |-> IF p = path THEN i ELSE fs[p]],
          inodes |-> [j \in DOMAIN inodes \cup {i} |->
                        IF j = i THEN [data |-> <<>>, readonly |-> FALSE]
                        ELSE inodes[j]]]

start_transfer(header, out) ==
    LET file_path == FinalPath(header.path)
        created == FileCreate(TempPath(file_path))
        transfer_state ==
            [path |-> file_path, size |-> header.size, chunks_received |-> 0,
             total_chunks |-> header.chunks, inode |-> created.inode,
             offset |-> 0]
        id == header.transfer_id
        act == [i \in DOMAIN active \cup {id} |->
                  IF i = id THEN transfer_state ELSE active[i]]
    IN  /\ LET c == Canon(created.inodes, created.fs, act)
           IN  active' = c.active /\ fs' = c.fs /\ inodes' = c.inodes
        /\ verified' = [verified EXCEPT ![id] = {}]
        /\ aborted' = aborted \ {id}
        /\ ev' = Event("start", id)
        /\ s2c' = out
        /\ UNCHANGED <<rpc, rres>>

receive_chunk(chunk, out) ==
    LET id == chunk.transfer_id IN
    IF id \in DOMAIN active
    THEN IF blake3(chunk.data) # chunk.checksum
         THEN /\ s2c' = Append(out, TransferError(id,
                           <<"Checksum mismatch for chunk", chunk.chunk_index>>))
              /\ rpc' = "idle"
              /\ rres' = Err("Network", "Checksum mismatch")
              /\ aborted' = aborted \cup {id}
              /\ ev' = Event("chunk_bad", id)
              /\ UNCHANGED <<active, fs, inodes, verified>>
         ELSE LET st == active[id] IN
              /\ inodes' = [inodes EXCEPT ![st.inode].data =
                               WriteAt(@, st.offset, chunk.data)]
              /\ active' = [active EXCEPT
                               ![id].chunks_received = @ + 1,
                               ![id].offset = @ + BLen(chunk.data)]
              /\ s2c' = Append(out, AckChunk(id, chunk.chunk_index))
              /\ verified' = [verified EXCEPT ![id] = @ \cup {chunk.chunk_index}]
              /\ ev' = Event("chunk_ok", id)
              /\ UNCHANGED <<fs, rpc, rres, aborted>>
    ELSE /\ ev' = Event("chunk_ignored", id)
         /\ s2c' = out
         /\ UNCHANGED <<active, fs, inodes, rpc, rres, verified, aborted>>

\* "Verify all chunks received"
AllChunksNotLess(st) == st.chunks_received >= st.total_chunks
AllChunksReceived(st) == st.chunks_received = st.total_chunks

complete_transfer(transfer_id, out) ==
    IF transfer_id \in DOMAIN active
    THEN LET st == active[transfer_id]
             temp_path == TempPath(st.path)
             act == [i \in DOMAIN active \ {transfer_id} |-> active[i]]
         IN  /\ s2c' = out
             /\ verified' = [verified EXCEPT ![transfer_id] = {}]
             /\ aborted' = aborted \ {transfer_id}
             /\ IF ~AllChunksReceived(st)
                THEN /\ rpc' = "idle"
                     /\ rres' = Err("Network", "Incomplete transfer")
                     /\ ev' = Event("incomplete", transfer_id)
                     /\ LET c == Canon(inodes, fs, act)
                        IN  active' = c.active /\ fs' = c.fs /\ inodes' = c.inodes
                ELSE IF temp_path \notin DOMAIN fs
                THEN \* std::fs::rename fails: the staging file is gone
                     /\ rpc' = "idle"
                     /\ rres' = Err("Io", "rename")
                     /\ ev' = Event("rename_failed", transfer_id)
                     /\ LET c == Canon(inodes, fs, act)
                        IN  active' = c.active /\ fs' = c.fs /\ inodes' = c.inodes
                ELSE LET moved == [p \in (DOMAIN fs \ {temp_path}) \cup {st.path} |->
                                     IF p = st.path THEN fs[temp_path] ELSE fs[p]]
                         \* metadata.apply_to_file: the committed file read-only
                         marked == [inodes EXCEPT ![fs[temp_path]].readonly = TRUE]
                     IN  /\ LET c == Canon(marked, moved, act)
                            IN  active' = c.active /\ fs' = c.fs /\ inodes' = c.inodes
                         /\ ev' = Event("commit", transfer_id)
                         /\ UNCHANGED <<rpc, rres>>
    ELSE /\ ev' = Event("complete_ignored", transfer_id)
         /\ s2c' = out
         /\ UNCHANGED <<active, fs, inodes, rpc, rres, verified, aborted>>

\* One iteration of receive_file's loop on what the read returned.
receive_file_iter(message, out) ==
    /\ rpc = "loop"
    /\ CASE message.type = "eof" ->
              /\ rpc' = "idle"
              /\ rres' = Ok
              /\ ev' = Event("eof", "")
              /\ s2c' = out
              /\ UNCHANGED <<active, fs, inodes, verified, aborted>>
         [] message.type = "garbage" ->
              /\ rpc' = "idle"
              /\ rres' = Err("Serialization", "")
              /\ ev' = Event("parse_error", "")
              /\ s2c' = out
              /\ UNCHANGED <<active, fs, inodes, verified, aborted>>
         [] message.type = "ioerror" ->
              /\ rpc' = "idle"
              /\ rres' = Err("Io", "read")
              /\ ev' = Event("io_error", "")
              /\ s2c' = out
              /\ UNCHANGED <<active, fs, inodes, verified, aborted>>
         [] message.type = "StartTransfer" -> start_transfer(message, out)
         [] message.type = "Chunk" -> receive_chunk(message, out)
         [] message.type = "CompleteTransfer" ->
              complete_transfer(message.transfer_id, out)
         [] message.type = "TransferError" ->
              /\ LET act == [i \in DOMAIN active \ {message.transfer_id} |->
                                active[i]]
                 IN  /\ LET c == Canon(inodes, fs, act)
                        IN  active' = c.active /\ fs' = c.fs /\ inodes' = c.inodes
              /\ ev' = Event("peer_error", message.transfer_id)
              /\ s2c' = out
              /\ verified' = [verified EXCEPT ![message.transfer_id] = {}]
              /\ aborted' = aborted \ {message.transfer_id}
              /\ UNCHANGED <<rpc, rres>>
         [] OTHER ->
              /\ ev' = Event("unexpected", "")
              /\ s2c' = out
              /\ UNCHANGED <<active, fs, inodes, rpc, rres, verified, aborted>>

\* A caller enters receive_file on this manager.
receive_file(out) ==
    /\ rpc = "idle"
    /\ rpc' = "loop"
    /\ rres' = NoResult
    /\ ev' = Event("call", "")
    /\ s2c' = out
    /\ UNCHANGED <<active, fs, inodes, verified, aborted>>

\* --------------------------------------------------------------- sender
\* The files send_file is given: empty, shorter than one chunk, one chunk,
\* a multiple of the chunk size, and one byte more than a chunk.
SendData ==
    { <<>>,
      <<[b |-> 7, n |-> 3]>>,
      <<[b |-> 7, n |-> CHUNK_SIZE]>>,
      <<[b |-> 7, n |-> CHUNK_SIZE], [b |-> 9, n |-> CHUNK_SIZE]>>,
      <<[b |-> 7, n |-> CHUNK_SIZE], [b |-> 9, n |-> 1]>> }

VARIABLES
    spc,          \* "idle", "read", "wait", "done": where send_file is
    sfile,        \* the file being sent: [name, data]
    transfer_id,  \* the uuid of this send_file
    pos,          \* the read position in the file
    chunk_index,
    bytes_sent,
    bytes_read,   \* of the chunk last read
    c2s,          \* the messages the sender has written to the stream
    sin,          \* what the sender's last read of the stream returned
    sres          \* what send_file returned

svars == <<spc, sfile, transfer_id, pos, chunk_index, bytes_sent, bytes_read,
           c2s, sin, sres>>

SendInit ==
    /\ spc = "idle"
    /\ sfile = [name |-> "", data |-> <<>>]
    /\ transfer_id = ""
    /\ pos = 0
    /\ chunk_index = 0
    /\ bytes_sent = 0
    /\ bytes_read = 0
    /\ c2s = <<>>
    /\ sin = NoMessage
    /\ sres = NoResult

\* (file_size + CHUNK_SIZE - 1) / CHUNK_SIZE
TotalChunksFloor(file_size) == file_size \div CHUNK_SIZE
TotalChunks(file_size) == (file_size + CHUNK_SIZE - 1) \div CHUNK_SIZE

\* send_file up to the header: the file is opened and StartTransfer written.
send_file(file, id) ==
    LET file_size == BLen(file.data)
        total_chunks == TotalChunks(file_size)
    IN  /\ spc = "idle"
        /\ sres = NoResult
        /\ sfile' = file
        /\ transfer_id' = id
        /\ c2s' = Append(c2s, StartTransfer(id, file.name, file_size,
                                            total_chunks))
        /\ spc' = "read"
        /\ UNCHANGED <<pos, chunk_index, bytes_sent, bytes_read, sin, sres>>

\* The loop body up to the write of the chunk: file.read fills the buffer
\* with up to CHUNK_SIZE bytes; zero bytes read leave the loop.
send_chunk ==
    LET chunk_data == BTake(BDrop(sfile.data, pos), CHUNK_SIZE)
        n == BLen(chunk_data)
    IN  /\ spc = "read"
        /\ n > 0
        /\ c2s' = Append(c2s, Chunk(transfer_id, chunk_index, chunk_data,
                                    blake3(chunk_data)))
        /\ pos' = pos + n
        /\ bytes_read' = n
        /\ spc' = "wait"
        /\ UNCHANGED <<sfile, transfer_id, chunk_index, bytes_sent, sin, sres>>

\* After the loop: CompleteTransfer is written and send_file returns Ok.
send_complete ==
    /\ spc = "read"
    /\ BLen(BDrop(sfile.data, pos)) = 0
    /\ c2s' = Append(c2s, CompleteTransfer(transfer_id))
    /\ spc' = "done"
    /\ sres' = Ok
    /\ UNCHANGED <<sfile, transfer_id, pos, chunk_index, bytes_sent, bytes_read, sin>>

\* The TransferError arm of the match on the reply.
is_transfer_error_never(ack) == FALSE
is_transfer_error(ack) == ack.type = "TransferError"

\* The wait for the acknowledgment, on what stream.read returned.
send_wait(reply) ==
    /\ spc = "wait"
    /\ sin' = reply
    /\ CASE reply.type = "ioerror" ->
              /\ spc' = "done"
              /\ sres' = Err("Io", "read")
              /\ UNCHANGED <<chunk_index, bytes_sent>>
         [] reply.type = "garbage" ->
              /\ spc' = "done"
              /\ sres' = Err("Serialization", "")
              /\ UNCHANGED <<chunk_index, bytes_sent>>
         [] is_transfer_error(reply) ->
              /\ spc' = "done"
              /\ sres' = Err("Network", <<"Transfer error:", reply.error>>)
              /\ UNCHANGED <<chunk_index, bytes_sent>>
         [] reply.type = "AckChunk" ->
              /\ bytes_sent' =
                   IF reply.transfer_id = transfer_id
                      /\ reply.chunk_index = chunk_index
                   THEN bytes_sent + bytes_read ELSE bytes_sent
              /\ chunk_index' = chunk_index + 1
              /\ spc' = "read"
              /\ sres' = sres
         [] OTHER ->  \* zero bytes read, or another message
              /\ chunk_index' = chunk_index + 1
              /\ spc' = "read"
              /\ UNCHANGED <<bytes_sent, sres>>
    /\ UNCHANGED <<sfile, transfer_id, pos, bytes_read, c2s>>

\* ----------------------------------------------------------- the stream
RECURSIVE Digits(_)
Digits(n) == IF n < 10 THEN 1 ELSE 1 + Digits(n \div 10)

RECURSIVE DigitSum(_)
DigitSum(d) == IF d = <<>> THEN 0
               ELSE Head(d).n * Digits(Head(d).b) + DigitSum(Tail(d))

\* The length of serde_json's rendering of a Vec<u8>: "[7,7,255]".
DataJsonLen(d) == IF d = <<>> THEN 2 ELSE DigitSum(d) + (BLen(d) - 1) + 2

\* The length of serde_json::to_vec of a message (a uuid has 36 characters,
\* a digest 64, the two SystemTime fields 10 and 9 digits).
JsonLen(m) ==
    CASE m.type = "Chunk" ->
           165 + Digits(m.chunk_index) + DataJsonLen(m.data)
      [] m.type = "StartTransfer" ->
           422 + 2 * Len(m.path) + 2 * Digits(m.size) + Digits(m.chunks)
      [] m.type = "AckChunk" -> 82 + Digits(m.chunk_index)
      [] m.type = "CompleteTransfer" -> 75
      [] m.type = "TransferError" -> 111 + Digits(m.error[2])

\* What a read into a buffer of buflen bytes followed by from_slice gives
\* for the message at the head of the stream: the message when it fits,
\* and otherwise a truncated rendering, which does not parse.
ReadInto(buflen, m) == IF JsonLen(m) <= buflen THEN m ELSE ReadGarbage

RecvBufLen == CHUNK_SIZE + 1024
AckBufLen == 1024

\* ------------------------------------------------- snapshots and diffs
\* FileMetadata, as far as the comparisons read it (size, created and
\* version ride along unread); a snapshot's key is its record's path.
Hashes == {"h1", "h2"}
Times == 0..MaxTime
Devices == {"devA", "devB"}
FileMetadata == [path : Names, hash : Hashes, modified : Times, device_id : Devices]
\* FileMetadata.version: wherever a record is built it is the modified time
\* in whole seconds (duration_since(UNIX_EPOCH).as_secs()).
as_secs(t) == t \div TicksPerSecond
Version(meta) == as_secs(meta.modified)
\* SyncState.local_files: HashMap<PathBuf, FileMetadata>
Snapshots ==
    UNION {{f \in [S -> FileMetadata] : \A q \in S : f[q].path = q} : S \in SUBSET Names}

\* SyncOperation
Add(meta) == [op |-> "Add", meta |-> meta]
Update(meta) == [op |-> "Update", meta |-> meta]
Delete(path) == [op |-> "Delete", path |-> path]
OpPath(o) == IF o.op = "Delete" THEN o.path ELSE o.meta.path

\* The orders in which a HashMap can hand out its entries.
Orders == {o \in [1..Len(NameList) -> Names] : \A n \in Names : \E i \in DOMAIN o : o[i] = n}
Iter(map, order) == SelectSeq(order, LAMBDA q : q \in DOMAIN map)

\* The results of F on the entries, in the order of the iteration.
FlatMap(seq, F(_)) ==
    LET acc[i \in 0..Len(seq)] == IF i = 0 THEN <<>> ELSE acc[i - 1] \o F(seq[i])
    IN  acc[Len(seq)]

\* FileIndexer::get_file_changes(old_state), current being what
\* index_directory returned.
GetFileChangesByTime(current, old, ocur, oold) ==
    LET upsert(q) ==
            IF q \in DOMAIN old
            THEN (IF current[q].modified # old[q].modified
                  THEN <<Update(current[q])>> ELSE <<>>)
            ELSE <<Add(current[q])>>
        gone(q) == IF q \notin DOMAIN current THEN <<Delete(q)>> ELSE <<>>
    IN  FlatMap(Iter(current, ocur), upsert) \o FlatMap(Iter(old, oold), gone)
get_file_changes(current, old, ocur, oold) ==
    LET upsert(q) ==
            IF q \in DOMAIN old
            THEN (IF current[q].hash # old[q].hash
                  THEN <<Update(current[q])>> ELSE <<>>)
            ELSE <<Add(current[q])>>
        gone(q) == IF q \notin DOMAIN current THEN <<Delete(q)>> ELSE <<>>
    IN  FlatMap(Iter(current, ocur), upsert) \o FlatMap(Iter(old, oold), gone)

\* The conflict branch of calculate_sync_operations: the newer record wins,
\* the local one on equal timestamps.
SyncConflictRemoteOnTie(local_meta, remote_meta) ==
    IF local_meta.modified > remote_meta.modified
    THEN <<Update(local_meta)>>
    ELSE <<Update(remote_meta)>>
SyncConflict(local_meta, remote_meta) ==
    IF local_meta.modified > remote_meta.modified
    THEN <<Update(local_meta)>>
    ELSE IF remote_meta.modified > local_meta.modified
    THEN <<Update(remote_meta)>>
    ELSE <<Update(local_meta)>>

\* SyncEngine::calculate_sync_operations
calculate_sync_operations_always(local_files, remote_files, olocal, oremote) ==
    LET both(q) ==
            IF q \in DOMAIN remote_files
            THEN SyncConflict(local_files[q], remote_files[q])
            ELSE <<Add(local_files[q])>>
        remote_only(q) ==
            IF q \notin DOMAIN local_files THEN <<Add(remote_files[q])>> ELSE <<>>
        local_only(q) ==
            IF q \notin DOMAIN remote_files THEN <<Delete(q)>> ELSE <<>>
    IN  FlatMap(Iter(local_files, olocal), both)
        \o FlatMap(Iter(remote_files, oremote), remote_only)
        \o FlatMap(Iter(local_files, olocal), local_only)
calculate_sync_operations(local_files, remote_files, olocal, oremote) ==
    LET both(q) ==
            IF q \in DOMAIN remote_files
            THEN (IF local_files[q].hash # remote_files[q].hash
                  THEN SyncConflict(local_files[q], remote_files[q])
                  ELSE <<>>)
            ELSE <<Add(local_files[q])>>
        remote_only(q) ==
            IF q \notin DOMAIN local_files THEN <<Add(remote_files[q])>> ELSE <<>>
        local_only(q) ==
            IF q \notin DOMAIN remote_files THEN <<Delete(q)>> ELSE <<>>
    IN  FlatMap(Iter(local_files, olocal), both)
        \o FlatMap(Iter(remote_files, oremote), remote_only)
        \o FlatMap(Iter(local_files, olocal), local_only)

\* Variants of calculate_bidirectional_sync: the newer record sent to the
\* side that already holds it; a one-sided record added on its own side.
BidirectionalUpdateToWinner(local_files, remote_files, olocal, oremote) ==
    LET to_local(q) ==
            IF q \in DOMAIN remote_files
               /\ local_files[q].hash # remote_files[q].hash
               /\ ~(remote_files[q].modified > local_files[q].modified)
            THEN <<Update(local_files[q])>> ELSE <<>>
        to_remote(q) ==
            IF q \in DOMAIN remote_files
            THEN (IF local_files[q].hash # remote_files[q].hash
                     /\ remote_files[q].modified > local_files[q].modified
                  THEN <<Update(remote_files[q])>> ELSE <<>>)
            ELSE <<Add(local_files[q])>>
        remote_only(q) ==
            IF q \notin DOMAIN local_files THEN <<Add(remote_files[q])>> ELSE <<>>
        local_gone(q) ==
            IF q \notin DOMAIN remote_files THEN <<Delete(q)>> ELSE <<>>
        remote_gone(q) ==
            IF q \notin DOMAIN local_files THEN <<Delete(q)>> ELSE <<>>
    IN  [local_operations |->
            FlatMap(Iter(local_files, olocal), to_local)
            \o FlatMap(Iter(remote_files, oremote), remote_only)
            \o FlatMap(Iter(remote_files, oremote), remote_gone),
         remote_operations |->
            FlatMap(Iter(local_files, olocal), to_remote)
            \o FlatMap(Iter(local_files, olocal), local_gone)]
BidirectionalAddOnOwnSide(local_files, remote_files, olocal, oremote) ==
    LET to_local(q) ==
            IF q \in DOMAIN remote_files
            THEN (IF local_files[q].hash # remote_files[q].hash
                     /\ remote_files[q].modified > local_files[q].modified
                  THEN <<Update(remote_files[q])>> ELSE <<>>)
            ELSE <<Add(local_files[q])>>
        to_remote(q) ==
            IF q \in DOMAIN remote_files
               /\ local_files[q].hash # remote_files[q].hash
               /\ ~(remote_files[q].modified > local_files[q].modified)
            THEN <<Update(local_files[q])>> ELSE <<>>
        remote_only(q) ==
            IF q \notin DOMAIN local_files THEN <<Add(remote_files[q])>> ELSE <<>>
        local_gone(q) ==
            IF q \notin DOMAIN remote_files THEN <<Delete(q)>> ELSE <<>>
        remote_gone(q) ==
            IF q \notin DOMAIN local_files THEN <<Delete(q)>> ELSE <<>>
    IN  [local_operations |->
            FlatMap(Iter(local_files, olocal), to_local)
            \o FlatMap(Iter(remote_files, oremote), remote_gone),
         remote_operations |->
            FlatMap(Iter(local_files, olocal), to_remote)
            \o FlatMap(Iter(remote_files, oremote), remote_only)
            \o FlatMap(Iter(local_files, olocal), local_gone)]

\* SyncEngine::calculate_bidirectional_sync: (local_operations,
\* remote_operations)
calculate_bidirectional_sync(local_files, remote_files, olocal, oremote) ==
    LET to_local(q) ==
            IF q \in DOMAIN remote_files
               /\ local_files[q].hash # remote_files[q].hash
               /\ ~(local_files[q].modified > remote_files[q].modified)
               /\ remote_files[q].modified > local_files[q].modified
            THEN <<Update(remote_files[q])>> ELSE <<>>
        to_remote(q) ==
            IF q \in DOMAIN remote_files
            THEN (IF local_files[q].hash # remote_files[q].hash
                     /\ (local_files[q].modified > remote_files[q].modified
                         \/ ~(remote_files[q].modified > local_files[q].modified))
                  THEN <<Update(local_files[q])>> ELSE <<>>)
            ELSE <<Add(local_files[q])>>
        remote_only(q) ==
            IF q \notin DOMAIN local_files THEN <<Add(remote_files[q])>> ELSE <<>>
        local_gone(q) ==
            IF q \notin DOMAIN remote_files THEN <<Delete(q)>> ELSE <<>>
        remote_gone(q) ==
            IF q \notin DOMAIN local_files THEN <<Delete(q)>> ELSE <<>>
    IN  [local_operations |->
            FlatMap(Iter(local_files, olocal), to_local)
            \o FlatMap(Iter(remote_files, oremote), remote_only)
            \o FlatMap(Iter(remote_files, oremote), remote_gone),
         remote_operations |->
            FlatMap(Iter(local_files, olocal), to_remote)
            \o FlatMap(Iter(local_files, olocal), local_gone)]

\* vps_server.rs calculate_sync_operations_for_client: client_files is the
\* list of the request, server_files the values of ServerState.metadata.
calculate_sync_operations_for_client(client_files, server_files, oclient, oserver) ==
    LET common(q) ==
            IF q \in DOMAIN server_files
            THEN (IF client_files[q].hash # server_files[q].hash
                  THEN (IF Version(server_files[q]) > Version(client_files[q])
                        THEN <<Update(server_files[q])>> ELSE <<>>)
                  ELSE <<>>)
            ELSE <<>>
        server_only(q) ==
            IF q \notin DOMAIN client_files THEN <<Add(server_files[q])>> ELSE <<>>
    IN  FlatMap(Iter(client_files, oclient), common)
        \o FlatMap(Iter(server_files, oserver), server_only)

\* network.rs handle_connection, SyncRequest arm: the operations of the
\* SyncResponse it writes.
handle_connection_operations(client_files) == <<>>

VARIABLES
    snapA,   \* the old snapshot / the local file map
    snapB,   \* the current snapshot / the remote file map
    dres     \* which function ran last, and what it returned

dvars == <<snapA, snapB, dres>>

DiffResult(fn, ops, remote_ops) == [fn |-> fn, ops |-> ops, remote_ops |-> remote_ops]
NoDiff == DiffResult("none", <<>>, <<>>)

\* ------------------------------------------ a receiver and any peer at all
VARIABLE delivered   \* how many messages the peer has delivered

\* What a peer can put on the stream of a running receive_file.
\* The peer's chunk of index i is two bytes of value 7 + i; a chunk arrives
\* as it was digested, or with one bit flipped after that.
PayloadLen == 2
Payload(index) == <<[b |-> 7 + index, n |-> PayloadLen]>>
StartMsgs ==
    {StartTransfer(id, name, PayloadLen * chunks, chunks) :
        id \in Ids, name \in Names, chunks \in 0..MaxChunks}
ChunkMsgs ==
    {Chunk(id, index, IF flip THEN FlipBit(Payload(index)) ELSE Payload(index),
           blake3(Payload(index))) :
        id \in Ids, index \in 0..(MaxChunks - 1), flip \in BOOLEAN}

\* ------------------------------------------------- connections: server
\* NetworkMessage (network.rs); device_name, sync_root_hash and the address
\* of a DeviceInfo ride along unread. A file's content is one of Contents.
Contents == {Payload(0), Payload(1)}
Handshake(device_id) == [type |-> "Handshake", device_id |-> device_id]
HandshakeResponse(accepted, device_id) ==
    [type |-> "HandshakeResponse", accepted |-> accepted, device_id |-> device_id]
SyncRequest(device_id, files) ==
    [type |-> "SyncRequest", device_id |-> device_id, files |-> files]
SyncResponse(operations) == [type |-> "SyncResponse", operations |-> operations]
FileTransfer(path, content, metadata) ==
    [type |-> "FileTransfer", path |-> path, content |-> content, metadata |-> metadata]
FileRequest(path) == [type |-> "FileRequest", path |-> path]
FileResponse(path, found, content, metadata) ==
    [type |-> "FileResponse", path |-> path, found |-> found,
     content |-> content, metadata |-> metadata]
Heartbeat == [type |-> "Heartbeat"]
None == <<>>
Some(x) == <<x>>

VARIABLES
    srv,           \* the server binary: "vps" (vps_server.rs) or "net" (network.rs)
    hpc,           \* the connection handler: "read", or "closed" once it returned
    srv_files,     \* ServerState.files: path -> content
    srv_metadata,  \* ServerState.metadata: path -> FileMetadata
    srv_clients,   \* ServerState.clients, its keys
    srv_devices,   \* the server's DeviceManager.devices, its keys
    srv_disk,      \* the files under ./vps_storage: path -> content
    nin,           \* the envelope the handler read in the last step
    nout,          \* what the handler wrote to the stream in the last step
    authed,        \* a Handshake was accepted on this connection
    strayed,       \* an envelope of a variant not meant for a server was read
    handled        \* how many envelopes the handler has parsed

nsvars == <<srv, hpc, srv_files, srv_metadata, srv_clients, srv_devices, srv_disk,
            nin, nout, authed, strayed, handled>>

ServerId == "vps-server"
Put(map, k, v) == [q \in DOMAIN map \cup {k} |-> IF q = k THEN v ELSE map[q]]

\* sync.rs SyncEngine::apply_sync_operation: the record map afterwards (the
\* result is Ok(()) in every case).  self_id is the engine's device_id.
apply_sync_operation(self_id, operation, local_files, remote_content) ==
    IF operation.op \in {"Add", "Update"}
    THEN IF operation.meta.device_id # self_id
         THEN (IF remote_content # None
               THEN Put(local_files, operation.meta.path, operation.meta)
               ELSE local_files)
         ELSE Put(local_files, operation.meta.path, operation.meta)
    ELSE [q \in DOMAIN local_files \ {operation.path} |-> local_files[q]]

\* What the server holds when it starts to accept: nothing, or a.md as
\* load_existing_files read it from the storage directory.
StoredRecord ==
    [path |-> "a.md", hash |-> blake3(Payload(0)), modified |-> 0, device_id |-> ServerId]
ServerInit ==
    /\ srv \in {"vps", "net"}
    /\ hpc = "read"
    /\ \E stored \in BOOLEAN :
          /\ srv_files = IF stored THEN Put(<<>>, "a.md", Payload(0)) ELSE <<>>
          /\ srv_metadata = IF stored THEN Put(<<>>, "a.md", StoredRecord) ELSE <<>>
          /\ srv_disk = IF stored THEN Put(<<>>, "a.md", Payload(0)) ELSE <<>>
    /\ srv_clients = {}
    /\ srv_devices = {}
    /\ nin = NoMessage
    /\ nout = <<>>
    /\ authed = FALSE
    /\ strayed = FALSE
    /\ handled = 0

\* The handler returns: on a read of zero bytes, on bytes that do not parse,
\* on a failed read.
handler_return(message) ==
    /\ hpc' = "closed"
    /\ nin' = message
    /\ nout' = <<>>
    /\ UNCHANGED <<srv, srv_files, srv_metadata, srv_clients, srv_devices, srv_disk,
                   authed, strayed, handled>>

\* vps_server.rs, the Heartbeat arm: the response.
vps_heartbeat_twice(message) == <<Heartbeat, Heartbeat>>
vps_heartbeat(message) == <<Heartbeat>>

\* vps_server.rs handle_client_connection: one turn of its loop.
handle_client_connection(message) ==
    /\ hpc = "read"
    /\ IF message.type \in {"eof", "garbage", "ioerror"}
       THEN handler_return(message)
       ELSE
        /\ nin' = message
        /\ handled' = handled + 1
        /\ UNCHANGED <<srv, hpc>>
        /\ CASE message.type = "Handshake" ->
                  /\ srv_devices' = srv_devices \cup {message.device_id}
                  /\ srv_clients' = srv_clients \cup {message.device_id}
                  /\ nout' = <<HandshakeResponse(TRUE, ServerId)>>
                  /\ authed' = TRUE
                  /\ UNCHANGED <<srv_files, srv_metadata, srv_disk, strayed>>
             [] message.type = "SyncRequest" ->
                  /\ \E oclient \in Orders, oserver \in Orders :
                        nout' = <<SyncResponse(
                                     calculate_sync_operations_for_client(
                                         message.files, srv_metadata, oclient, oserver))>>
                  /\ UNCHANGED <<srv_files, srv_metadata, srv_clients, srv_devices,
                                 srv_disk, authed, strayed>>
             [] message.type = "FileRequest" ->
                  /\ nout' = IF message.path \in DOMAIN srv_files
                             THEN <<FileResponse(message.path, TRUE,
                                       Some(srv_files[message.path]),
                                       IF message.path \in DOMAIN srv_metadata
                                       THEN Some(srv_metadata[message.path]) ELSE None)>>
                             ELSE <<FileResponse(message.path, FALSE, None, None)>>
                  /\ UNCHANGED <<srv_files, srv_metadata, srv_clients, srv_devices,
                                 srv_disk, authed, strayed>>
             [] message.type = "FileTransfer" ->
                  /\ srv_files' = Put(srv_files, message.path, message.content)
                  /\ srv_metadata' = Put(srv_metadata, message.path, message.metadata)
                  /\ srv_disk' = Put(srv_disk, message.path, message.content)
                  /\ nout' = <<>>
                  /\ UNCHANGED <<srv_clients, srv_devices, authed, strayed>>
             [] message.type = "Heartbeat" ->
                  /\ nout' = vps_heartbeat(message)
                  /\ UNCHANGED <<srv_files, srv_metadata, srv_clients, srv_devices,
                                 srv_disk, authed, strayed>>
             [] OTHER ->
                  /\ nout' = <<>>
                  /\ strayed' = TRUE
                  /\ UNCHANGED <<srv_files, srv_metadata, srv_clients, srv_devices,
                                 srv_disk, authed>>

\* network.rs NetworkManager::handle_connection: it reads one envelope,
\* handles it and returns.
handle_connection(message) ==
    /\ hpc = "read"
    /\ IF message.type \in {"eof", "garbage", "ioerror"}
       THEN handler_return(message)
       ELSE
        /\ nin' = message
        /\ handled' = handled + 1
        /\ hpc' = "closed"
        /\ UNCHANGED <<srv, srv_files, srv_metadata, srv_clients, srv_disk>>
        /\ CASE message.type = "Handshake" ->
                  /\ srv_devices' = srv_devices \cup {message.device_id}
                  /\ nout' = <<HandshakeResponse(TRUE, ServerId)>>
                  /\ authed' = TRUE
                  /\ UNCHANGED strayed
             [] message.type = "SyncRequest" ->
                  /\ nout' = <<SyncResponse(handle_connection_operations(message.files))>>
                  /\ UNCHANGED <<srv_devices, authed, strayed>>
             [] message.type = "FileRequest" ->
                  /\ nout' = <<FileResponse(message.path, FALSE, None, None)>>
                  /\ UNCHANGED <<srv_devices, authed, strayed>>
             [] message.type \in {"FileTransfer", "Heartbeat"} ->
                  /\ nout' = <<>>
                  /\ UNCHANGED <<srv_devices, authed, strayed>>
             [] OTHER ->
                  /\ nout' = <<>>
                  /\ strayed' = TRUE
                  /\ UNCHANGED <<srv_devices, authed>>

\* The handler of the server that runs.
server_handle(message) ==
    IF srv = "vps" THEN handle_client_connection(message) ELSE handle_connection(message)

\* ------------------------------------------------- connections: client
\* main.rs, sync_folder with --connect: send_handshake, then the watcher
\* task and the periodic task, which share the stream behind a mutex.
VARIABLES
    cpc,        \* sync_folder: "start", "handshake", "running", or "exit"
    cres,       \* what send_handshake returned
    cdevices,   \* the client's DeviceManager.devices, its keys
    cout,       \* what the client wrote to the stream in the last step
    cin,        \* what the client read from the stream in the last step
    lock,       \* the stream's mutex: "free", or the task that holds it
    tpc,        \* task -> "idle", "locked", "response", "ops" or "recv"
    tops,       \* task -> the operations of the SyncResponse still to apply
    cev         \* what the last client step was: [task, kind]

ncvars == <<cpc, cres, cdevices, cout, cin, lock, tpc, tops, cev>>

VARIABLES
    c2sq,       \* client to server: envelopes written and not yet read
    s2cq,       \* server to client
    conn        \* "open", or "closed" once the server's handler returned

chvars == <<c2sq, s2cq, conn>>
nvars == <<nsvars, ncvars, chvars>>

Tasks == {"watcher", "periodic"}
ClientId == "devA"
ClientEvent(task, kind) == [task |-> task, kind |-> kind]

ClientInit ==
    /\ cpc = "start"
    /\ cres = NoResult
    /\ cdevices = {}
    /\ cout = <<>>
    /\ cin = NoMessage
    /\ lock = "free"
    /\ tpc = [t \in Tasks |-> "idle"]
    /\ tops = [t \in Tasks |-> <<>>]
    /\ cev = ClientEvent("main", "none")
    /\ c2sq = <<>>
    /\ s2cq = <<>>
    /\ conn = "open"

\* serde_json::from_slice::<NetworkMessage> and ::<FileTransferMessage>: the
\* two enums share no variant name, so bytes of one do not parse as the other.
NetworkTypes == {"Handshake", "HandshakeResponse", "SyncRequest", "SyncResponse",
                 "FileTransfer", "FileRequest", "FileResponse", "Heartbeat"}
TransferTypes == {"StartTransfer", "Chunk", "AckChunk", "CompleteTransfer", "TransferError"}
AsNetworkMessage(m) ==
    IF m.type \in NetworkTypes \cup {"eof", "ioerror"} THEN m ELSE ReadGarbage
AsFileTransferMessage(m) ==
    IF m.type \in TransferTypes \cup {"eof", "ioerror"} THEN m ELSE ReadGarbage

\* FileIndexer::index_directory on the client's root: the files at final
\* paths (a .tmp file is not one should_sync_file accepts), each with the
\* digest of its bytes and the modified time the file system reports.
IndexResults ==
    LET present == {n \in Names : FinalPath(n) \in DOMAIN fs} IN
    {f \in [present -> [path : Names, hash : {blake3(inodes[fs[FinalPath(n)]].data) :
                                                 n \in present},
                        modified : Times, device_id : {ClientId}]] :
        \A n \in present :
            f[n].path = n /\ f[n].hash = blake3(inodes[fs[FinalPath(n)]].data)}

\* send_handshake: the Handshake is written.
send_handshake_write ==
    /\ cpc = "start"
    /\ cpc' = "handshake"
    /\ cout' = <<Handshake(ClientId)>>
    /\ cin' = NoMessage
    /\ cev' = ClientEvent("main", "write")
    /\ UNCHANGED <<cres, cdevices, lock, tpc, tops, rvars>>

\* send_handshake: `if accepted`.
handshake_accepted_always(response) == TRUE
handshake_accepted(response) == response.accepted

\* send_handshake: the reply is read; sync_folder returns on an error.
send_handshake_read(reply) ==
    LET response == AsNetworkMessage(reply) IN
    /\ cpc = "handshake"
    /\ cout' = <<>>
    /\ cin' = reply
    /\ cev' = ClientEvent("main", "read")
    /\ UNCHANGED <<lock, tpc, tops, rvars>>
    /\ CASE response.type = "ioerror" ->
              /\ cres' = Err("Io", "read")
              /\ cpc' = "exit"
              /\ UNCHANGED cdevices
         [] response.type \in {"eof", "garbage"} ->
              /\ cres' = Err("Serialization", "")
              /\ cpc' = "exit"
              /\ UNCHANGED cdevices
         [] response.type = "HandshakeResponse" ->
              IF handshake_accepted(response)
              THEN /\ cdevices' = cdevices \cup {response.device_id}
                   /\ cres' = Ok
                   /\ cpc' = "running"
              ELSE /\ cres' = Err("Network", "Handshake rejected")
                   /\ cpc' = "exit"
                   /\ UNCHANGED cdevices
         [] OTHER ->
              /\ cres' = Err("Network", "Invalid handshake response")
              /\ cpc' = "exit"
              /\ UNCHANGED cdevices

\* tokio::sync::Mutex::try_lock on the stream's mutex.
try_lock_always(l) == TRUE
try_lock(l) == l = "free"

\* A task is woken (a file event, or the interval's tick). The watcher
\* task goes on only if more than two seconds have passed since its last
\* sync; a task that does not get the mutex goes back to wait.
trigger(task, elapsed) ==
    /\ cpc = "running"
    /\ tpc[task] = "idle"
    /\ cout' = <<>>
    /\ cin' = NoMessage
    /\ UNCHANGED <<cpc, cres, cdevices, tops, rvars>>
    /\ IF task = "watcher" /\ ~elapsed
       THEN /\ cev' = ClientEvent(task, "debounced")
            /\ UNCHANGED <<lock, tpc>>
       ELSE IF try_lock(lock)
       THEN /\ lock' = task
            /\ tpc' = [tpc EXCEPT ![task] = "locked"]
            /\ cev' = ClientEvent(task, "acquired")
       ELSE /\ cev' = ClientEvent(task, "skipped")
            /\ UNCHANGED <<lock, tpc>>

\* perform_sync returns and the guard of the mutex is dropped.
release(task, kind) ==
    /\ lock' = "free"
    /\ tpc' = [tpc EXCEPT ![task] = "idle"]
    /\ tops' = [tops EXCEPT ![task] = <<>>]
    /\ cev' = ClientEvent(task, kind)

\* perform_sync: the directory is indexed and the SyncRequest written
\* (written is FALSE when write_all fails).
perform_sync_write(task, written) ==
    /\ tpc[task] = "locked"
    /\ cin' = NoMessage
    /\ UNCHANGED <<cpc, cres, cdevices, rvars>>
    /\ IF written
       THEN /\ \E files \in IndexResults : cout' = <<SyncRequest(ClientId, files)>>
            /\ tpc' = [tpc EXCEPT ![task] = "response"]
            /\ cev' = ClientEvent(task, "write")
            /\ UNCHANGED <<lock, tops>>
       ELSE /\ cout' = <<>>
            /\ release(task, "error")

\* perform_sync: the response is read.
perform_sync_read(task, reply) ==
    LET response == AsNetworkMessage(reply) IN
    /\ tpc[task] = "response"
    /\ cout' = <<>>
    /\ cin' = reply
    /\ UNCHANGED <<cpc, cres, cdevices, rvars>>
    /\ CASE response.type \in {"ioerror", "garbage"} -> release(task, "error")
         [] response.type = "SyncResponse" ->
              /\ tops' = [tops EXCEPT ![task] = response.operations]
              /\ tpc' = [tpc EXCEPT ![task] = "ops"]
              /\ cev' = ClientEvent(task, "read")
              /\ UNCHANGED lock
         [] OTHER -> release(task, "done")

\* perform_sync: the next operation of the response. Add and Update enter
\* receive_file on a new FileTransferManager; Delete removes the file.
\* indexer.delete_file(&path)? is fs::remove_file, which fails when there is
\* no such file, and the ? makes that perform_sync's error.
perform_sync_op(task) ==
    /\ tpc[task] = "ops"
    /\ cout' = <<>>
    /\ cin' = NoMessage
    /\ UNCHANGED <<cpc, cres, cdevices>>
    /\ IF tops[task] = <<>>
       THEN /\ release(task, "done")
            /\ UNCHANGED rvars
       ELSE LET operation == Head(tops[task]) IN
            IF operation.op \in {"Add", "Update"}
            THEN /\ LET c == Canon(inodes, fs, << >>)
                    IN  active' = c.active /\ fs' = c.fs /\ inodes' = c.inodes
                 /\ verified' = [i \in Ids |-> {}]
                 /\ aborted' = {}
                 /\ rpc' = "loop"
                 /\ rres' = NoResult
                 /\ ev' = Event("call", "")
                 /\ s2c' = <<>>
                 /\ tpc' = [tpc EXCEPT ![task] = "recv"]
                 /\ cev' = ClientEvent(task, "receive_file")
                 /\ UNCHANGED <<lock, tops>>
            ELSE IF FinalPath(operation.path) \in DOMAIN fs
            THEN /\ LET c == Canon(inodes,
                                   [q \in DOMAIN fs \ {FinalPath(operation.path)} |-> fs[q]],
                                   active)
                    IN  active' = c.active /\ fs' = c.fs /\ inodes' = c.inodes
                 /\ tops' = [tops EXCEPT ![task] = Tail(@)]
                 /\ cev' = ClientEvent(task, "delete")
                 /\ UNCHANGED <<lock, tpc, rpc, rres, s2c, ev, verified, aborted>>
            ELSE /\ release(task, "delete_failed")
                 /\ UNCHANGED rvars

\* perform_sync inside receive_file: one turn of its loop; when it
\* returns, with Ok or with an error that is logged, the operation is done.
perform_sync_recv(task, reply) ==
    /\ tpc[task] = "recv"
    /\ receive_file_iter(AsFileTransferMessage(reply), <<>>)
    /\ cout' = s2c'
    /\ cin' = reply
    /\ cev' = ClientEvent(task, "read")
    /\ UNCHANGED <<cpc, cres, cdevices, lock>>
    /\ IF rpc' = "idle"
       THEN /\ tops' = [tops EXCEPT ![task] = Tail(@)]
            /\ tpc' = [tpc EXCEPT ![task] = "ops"]
       ELSE UNCHANGED <<tops, tpc>>

\* ------------------------------------------- the server's state lock
\* vps_server.rs: every connection has its own task running
\* handle_client_connection, and all of them share one
\* Arc<RwLock<ServerState>>.
Conns == {"c1", "c2"}
\* How many responses a connection's socket takes from write_all while the
\* client at the other end reads nothing.
SockCap == 1

VARIABLES
    kpc,       \* connection -> "read" (in stream.read), "lock" (in
               \* state.read() or state.write()), "write" (in write_all)
    kmsg,      \* connection -> the variant of the envelope being handled
    readers,   \* the connections whose task holds a read guard
    waiters,   \* the tasks waiting for the lock, first come first
    sendbuf    \* connection -> responses written that the client has not read

lkvars == <<kpc, kmsg, readers, waiters, sendbuf>>

LockInit ==
    /\ kpc = [c \in Conns |-> "read"]
    /\ kmsg = [c \in Conns |-> "none"]
    /\ readers = {}
    /\ waiters = <<>>
    /\ sendbuf = [c \in Conns |-> 0]

\* An arm of the match takes the lock for reading (state.read(), l.212 and
\* l.226), for writing (state.write(), l.198 and l.252), or not at all.
LockMode(variant) ==
    CASE variant \in {"SyncRequest", "FileRequest"} -> "shared"
      [] variant \in {"Handshake", "FileTransfer"} -> "exclusive"
      [] OTHER -> "none"

\* Whether the arm answers on the socket (every arm but FileTransfer does).
Answers(variant) == variant # "FileTransfer"

\* l.175 and l.182-184: stream.read returns an envelope; the arm either goes
\* for the lock or, for Heartbeat, straight to write_all.
conn_read(c, variant) ==
    /\ kpc[c] = "read"
    /\ kmsg' = [kmsg EXCEPT ![c] = variant]
    /\ IF LockMode(variant) = "none"
       THEN /\ kpc' = [kpc EXCEPT ![c] = "write"]
            /\ waiters' = waiters
       ELSE /\ kpc' = [kpc EXCEPT ![c] = "lock"]
            /\ waiters' = Append(waiters, c)
    /\ UNCHANGED <<readers, sendbuf>>

\* state.read().await / state.write().await return.  tokio's RwLock serves
\* its waiters first come first: the task at the head of the queue gets the
\* lock once no guard conflicts with it.  A write guard is dropped before the
\* arm reaches an await (the temporary of l.198; l.252-271 has no await
\* after it), so it is taken and dropped within the step and no state shows
\* it held; the read guards
\* of l.212 and l.226 are locals that live to the end of the arm.
state_lock(c) ==
    /\ kpc[c] = "lock"
    /\ waiters # <<>> /\ Head(waiters) = c
    /\ LockMode(kmsg[c]) = "exclusive" => readers = {}
    /\ waiters' = Tail(waiters)
    /\ readers' = IF LockMode(kmsg[c]) = "shared" THEN readers \cup {c} ELSE readers
    /\ kpc' = [kpc EXCEPT ![c] = IF Answers(kmsg[c]) THEN "write" ELSE "read"]
    /\ UNCHANGED <<kmsg, sendbuf>>

\* stream.write_all(&response_data).await returns once the socket has taken
\* the response, which it does while the client has read what was written
\* before; then the arm ends, its guard is dropped, and the loop reads again.
conn_write(c) ==
    /\ kpc[c] = "write"
    /\ sendbuf[c] < SockCap
    /\ sendbuf' = [sendbuf EXCEPT ![c] = @ + 1]
    /\ readers' = readers \ {c}
    /\ kpc' = [kpc EXCEPT ![c] = "read"]
    /\ UNCHANGED <<kmsg, waiters>>

\* The client at the other end of c reads a response, if it ever does.
client_reads(c) ==
    /\ sendbuf[c] > 0
    /\ sendbuf' = [sendbuf EXCEPT ![c] = @ - 1]
    /\ UNCHANGED <<kpc, kmsg, readers, waiters>>

\* ------------------------------------------------------------- AuthManager
\* security.rs: the tokens and sessions of an AuthManager. A token string is
\* "syncmd_" and a fresh uuid, here the number of the generate_token call that
\* made it. Time is chrono::Utc::now(), in ticks, and is taken never to be
\* set back.
Clients == {"alice", "bob"}
MaxTokens == 2
MaxNow == 2
token_lifetime == 1
max_tokens_per_client == 1
Permissions == {"read", "write", "sync", "admin"}

VARIABLES
    tokens,    \* AuthManager::tokens: token -> AuthToken
    sessions,  \* AuthManager::sessions: client_id -> SessionInfo
    now,       \* the clock
    issued,    \* how many tokens generate_token has made
    dead,      \* history: the tokens that have been revoked or have expired
    aret       \* the last call on the manager, and for a validation the
               \* token it was given and whether it accepted it

avars == <<tokens, sessions, now, issued, dead, aret>>

AuthInit ==
    /\ tokens = << >>
    /\ sessions = << >>
    /\ now = 0
    /\ issued = 0
    /\ dead = {}
    /\ aret = [fn |-> "new", token |-> 0, value |-> FALSE]

\* `now > auth_token.expires_at`, the test of validate_token,
\* validate_permissions and refresh_token.
never_expired(auth_token, at) == FALSE
expired(auth_token, at) == at > auth_token.expires_at

\* cleanup_expired_tokens: keeps `!is_revoked && expires_at > now`.
cleanup_expired_tokens(map, at) == [t \in {q \in DOMAIN map : ~map[q].is_revoked /\ map[q].expires_at > at} |-> map[t]]

\* The tokens the history holds after a call: those revoked or expired in
\* the state it started from or in the state it left.
Gone(map, at) == {t \in DOMAIN map : map[t].is_revoked \/ at > map[t].expires_at}
Record == dead' = dead \cup Gone(tokens, now) \cup Gone(tokens', now')

\* generate_token: the maps it can leave. When the client already holds
\* max_tokens_per_client unrevoked tokens, the first of them in the order
\* the HashMap iterates is revoked; then a fresh token is inserted.
generate_token(map, client_id, token) ==
    LET client_tokens == {t \in DOMAIN map : map[t].client_id = client_id /\ ~map[t].is_revoked}
        auth_token == [client_id |-> client_id, expires_at |-> now + token_lifetime,
                       is_revoked |-> FALSE, permissions |-> {"read", "write", "sync"}]
    IN  IF Cardinality(client_tokens) >= max_tokens_per_client /\ client_tokens # {}
        THEN {Put([map EXCEPT ![oldest].is_revoked = TRUE], token, auth_token) : oldest \in client_tokens}
        ELSE {Put(map, token, auth_token)}

GenerateToken ==
    \E client_id \in Clients :
        /\ issued < MaxTokens
        /\ tokens' \in generate_token(tokens, client_id, issued + 1)
        /\ issued' = issued + 1
        /\ aret' = [fn |-> "generate_token", token |-> 0, value |-> FALSE]
        /\ UNCHANGED <<sessions, now>>
        /\ Record

\* validate_token: cleanup first, then the lookup and its two tests; a hit
\* refreshes the client's session.
validate_token(token) ==
    LET kept == cleanup_expired_tokens(tokens, now)
        found == token \in DOMAIN kept
    IN  /\ IF ~found
           THEN tokens' = kept /\ aret' = [fn |-> "validate_token", token |-> token, value |-> FALSE]
                /\ UNCHANGED sessions
           ELSE IF kept[token].is_revoked
           THEN tokens' = kept /\ aret' = [fn |-> "validate_token", token |-> token, value |-> FALSE]
                /\ UNCHANGED sessions
           ELSE IF expired(kept[token], now)
           THEN tokens' = [kept EXCEPT ![token].is_revoked = TRUE]
                /\ aret' = [fn |-> "validate_token", token |-> token, value |-> FALSE]
                /\ UNCHANGED sessions
           ELSE /\ tokens' = kept
                /\ aret' = [fn |-> "validate_token", token |-> token, value |-> TRUE]
                /\ sessions' = IF kept[token].client_id \in DOMAIN sessions
                               THEN [sessions EXCEPT ![kept[token].client_id].last_activity = now]
                               ELSE sessions
        /\ UNCHANGED <<now, issued>>
        /\ Record

ValidateToken == \E token \in 1..MaxTokens : validate_token(token)

\* revoke_token
revoke_token(token) ==
    /\ tokens' = IF token \in DOMAIN tokens THEN [tokens EXCEPT ![token].is_revoked = TRUE] ELSE tokens
    /\ aret' = [fn |-> "revoke_token", token |-> 0, value |-> FALSE]
    /\ UNCHANGED <<sessions, now, issued>>
    /\ Record

RevokeToken == \E token \in 1..MaxTokens : revoke_token(token)

\* validate_permissions: reads the map as it is, no cleanup.
validate_permissions(token, required_permissions) ==
    /\ aret' = [fn |-> "validate_permissions", token |-> token,
                value |-> /\ token \in DOMAIN tokens
                          /\ ~tokens[token].is_revoked
                          /\ ~expired(tokens[token], now)
                          /\ required_permissions \subseteq tokens[token].permissions]
    /\ UNCHANGED <<tokens, sessions, now, issued>>
    /\ Record

ValidatePermissions == \E token \in 1..MaxTokens, required \in {{"read"}, {"read", "admin"}} : validate_permissions(token, required)

\* add_permission
add_permission(token, permission) ==
    /\ tokens' = IF token \in DOMAIN tokens THEN [tokens EXCEPT ![token].permissions = @ \cup {permission}] ELSE tokens
    /\ aret' = [fn |-> "add_permission", token |-> 0, value |-> FALSE]
    /\ UNCHANGED <<sessions, now, issued>>
    /\ Record

AddPermission == \E token \in 1..MaxTokens : add_permission(token, "admin")

\* refresh_token: an error for a token that is missing, revoked or expired,
\* otherwise generate_token for the same client; the old token stays.
refresh_token(token) ==
    /\ IF token \in DOMAIN tokens /\ ~tokens[token].is_revoked /\ ~expired(tokens[token], now)
       THEN /\ issued < MaxTokens
            /\ tokens' \in generate_token(tokens, tokens[token].client_id, issued + 1)
            /\ issued' = issued + 1
       ELSE UNCHANGED <<tokens, issued>>
    /\ aret' = [fn |-> "refresh_token", token |-> 0, value |-> FALSE]
    /\ UNCHANGED <<sessions, now>>
    /\ Record

RefreshToken == \E token \in 1..MaxTokens : refresh_token(token)

\* create_session
create_session(client_id) ==
    /\ sessions' = Put(sessions, client_id, [is_active |-> TRUE, last_activity |-> now])
    /\ aret' = [fn |-> "create_session", token |-> 0, value |-> FALSE]
    /\ UNCHANGED <<tokens, now, issued>>
    /\ Record

SessionClients == {"alice"}
CreateSession == \E client_id \in SessionClients : create_session(client_id)

\* The clock moves on.
Tick ==
    /\ now < MaxNow
    /\ now' = now + 1
    /\ aret' = [fn |-> "tick", token |-> 0, value |-> FALSE]
    /\ UNCHANGED <<tokens, sessions, issued>>
    /\ Record

\* ------------------------------------------------------- pure functions
VARIABLES
    call,      \* a function of the program and its arguments
    ret        \* what it returned
NoCall == [fn |-> "none"]
NoRet == [fn |-> "none"]

xvars == <<lkvars, call, ret, avars>>

\* ---- text: a &str is the sequence of its characters
MaxLines == 4

LF == "\n"
Dashes == <<"-", "-", "-">>
LocalMarker == <<"<", "<", "<", "<", "<", "<", "<", " ", "L", "O", "C", "A", "L", LF>>
MiddleMarker == <<LF, "=", "=", "=", "=", "=", "=", "=", LF>>
RemoteMarker == <<LF, ">", ">", ">", ">", ">", ">", ">", " ", "R", "E", "M", "O", "T", "E", LF>>

\* str::starts_with
starts_with(s, pat) == Len(s) >= Len(pat) /\ SubSeq(s, 1, Len(pat)) = pat

\* str::find: the offset of the first occurrence of pat in s, or None
find(s, pat) ==
    LET hits == {i \in 0..(Len(s) - Len(pat)) : SubSeq(s, i + 1, i + Len(pat)) = pat}
    IN  IF hits = {} THEN None
        ELSE Some(CHOOSE i \in hits : \A j \in hits : i <= j)

\* s[from..]
slice_from(s, from) == SubSeq(s, from + 1, Len(s))

\* str::trim_start: s without its leading white space
RECURSIVE trim_start(_)
trim_start(s) ==
    IF s # <<>> /\ Head(s) \in {" ", LF} THEN trim_start(Tail(s)) ELSE s

\* s.lines().count(): the pieces between line feeds, a last line feed
\* ending the last line and not starting an empty one
lines_count(s) ==
    Cardinality({i \in 1..Len(s) : s[i] = LF})
      + (IF s # <<>> /\ s[Len(s)] # LF THEN 1 ELSE 0)

\* ---- sync.rs: the merge of markdown contents
extract_frontmatter(content) ==
    LET end_offset == find(slice_from(content, 3), Dashes) IN
    IF starts_with(content, Dashes) /\ end_offset # None
    THEN LET frontmatter_end == end_offset[1] + 3 IN
         [frontmatter |-> SubSeq(content, 1, frontmatter_end + 3),
          body |-> trim_start(slice_from(content, frontmatter_end + 3))]
    ELSE [frontmatter |-> <<>>, body |-> content]

\* The two tests of "this side changed" that the code has.
differs_in_line_count(content, base) == lines_count(content) # lines_count(base)

has_significant_changes(content, base) ==
    IF base = <<>> THEN content # <<>>
    ELSE LET d == lines_count(base) - lines_count(content)
         IN  (IF d < 0 THEN -d ELSE d) > 2

merge_text_content(local, remote, base) ==
    IF base = <<>> THEN local \o <<LF, LF>> \o remote
    ELSE LET local_changes == differs_in_line_count(local, base)
             remote_changes == differs_in_line_count(remote, base)
         IN  IF local_changes /\ remote_changes
             THEN LocalMarker \o local \o MiddleMarker \o remote \o RemoteMarker
             ELSE IF remote_changes THEN remote
             ELSE local

merge_markdown_content(local_content, remote_content, base_content) ==
    LET l == extract_frontmatter(local_content)
        r == extract_frontmatter(remote_content)
        b == extract_frontmatter(base_content)
        merged_frontmatter == IF r.frontmatter = <<>> THEN l.frontmatter ELSE r.frontmatter
        merged_body == merge_text_content(l.body, r.body, b.body)
    IN  (IF merged_frontmatter # <<>>
         THEN merged_frontmatter \o Dashes \o <<LF, LF>>
         ELSE <<>>) \o merged_body

merge_markdown_files_with_conflict_resolution(local_content, remote_content, base_content, local_modified, remote_modified) ==
    LET both == /\ has_significant_changes(local_content, base_content)
                /\ has_significant_changes(remote_content, base_content)
        merged == merge_markdown_content(local_content, remote_content, base_content)
    IN  IF local_modified > remote_modified
        THEN (IF both THEN merged ELSE local_content)
        ELSE IF remote_modified > local_modified
        THEN (IF both THEN merged ELSE remote_content)
        ELSE merged


\* ---- paths: a path under the sync root is the sequence of its components,
\* and a component is the sequence of the pieces between its dots, so that
\* "note.md" is <<"note", "md">>, ".gitignore" is <<"", "gitignore">> and
\* "README" is <<"README">>.

\* Path::file_name
file_name(path) == path[Len(path)]

\* Path::extension: what follows the last dot of the file name; None when
\* there is no dot, or when the only dot is the one the name begins with.
extension(path) ==
    LET name == file_name(path) IN
    IF Len(name) = 1 \/ (Len(name) = 2 /\ name[1] = "") THEN None
    ELSE Some(name[Len(name)])

\* str::to_lowercase, on the pieces that occur
to_lowercase(piece) ==
    CASE piece = "MD" -> "md"
      [] piece = "PNG" -> "png"
      [] piece = "TXT" -> "txt"
      [] OTHER -> piece

\* ---- indexer.rs
is_hidden(path) == file_name(path)[1] = ""

should_sync_dotfile(path) ==
    file_name(path) \in
        {<<"", "gitignore">>, <<"", "gitattributes">>, <<"", "editorconfig">>,
         <<"", "env", "example">>,
         <<"", "eslintrc">>, <<"", "eslintrc", "json">>, <<"", "eslintrc", "js">>,
         <<"", "eslintrc", "yml">>,
         <<"", "prettierrc">>, <<"", "prettierrc", "json">>, <<"", "prettierrc", "js">>,
         <<"", "prettierrc", "yml">>,
         <<"", "babelrc">>, <<"", "babelrc", "json">>, <<"", "babelrc", "js">>,
         <<"", "vscode">>, <<"", "vscodeignore">>,
         <<"package", "json">>, <<"package-lock", "json">>, <<"yarn", "lock">>,
         <<"pnpm-lock", "yaml">>,
         <<"Cargo", "toml">>, <<"Cargo", "lock">>, <<"go", "mod">>, <<"go", "sum">>,
         <<"pom", "xml">>, <<"build", "gradle">>,
         <<"requirements", "txt">>, <<"pyproject", "toml">>, <<"setup", "py">>,
         <<"Pipfile">>, <<"poetry", "lock">>,
         <<"tsconfig", "json">>, <<"webpack", "config", "js">>, <<"vite", "config", "js">>,
         <<"next", "config", "js">>,
         <<"README">>, <<"README", "md">>, <<"LICENSE">>, <<"CHANGELOG", "md">>,
         <<"CONTRIBUTING", "md">>}

should_sync_file(path) ==
    LET ext == extension(path) IN
    IF ext # None
    THEN to_lowercase(ext[1]) \in
           {"md", "markdown", "mdown", "mkdn", "mkd", "mdwn", "mdtxt", "mdtext", "text",
            "jpg", "jpeg", "png", "gif", "svg", "webp", "bmp", "ico", "tiff", "tif",
            "rs", "py", "js", "ts", "jsx", "tsx", "html", "css", "scss", "json", "yaml",
            "yml", "toml", "xml",
            "ini", "cfg", "conf", "config", "env", "env.example",
            "txt", "rtf", "doc", "docx", "pdf",
            "csv", "tsv", "jsonl"}
    ELSE should_sync_dotfile(path)

\* What WalkDir with filter_entry(!is_hidden) yields: the entries none of
\* whose directories, and not themselves, are hidden.
walked(path) == \A i \in 1..Len(path) : ~is_hidden(SubSeq(path, 1, i))

\* A tree is the files under the root, each with what get_file_metadata
\* makes of it: "ok", or "err" when fs::metadata, fs::read, modified() or
\* created() fails.
\* index_directory with `?` on get_file_metadata in place of `if let Ok`.
index_directory_aborting(tree) ==
    LET eligible == {q \in DOMAIN tree : walked(q) /\ should_sync_file(q)} IN
    IF \E q \in eligible : tree[q] = "err"
    THEN [ok |-> FALSE, local_files |-> {}]
    ELSE [ok |-> TRUE, local_files |-> eligible]

index_directory(tree) ==
    [ok |-> TRUE,
     local_files |-> {q \in DOMAIN tree :
                        walked(q) /\ should_sync_file(q) /\ tree[q] = "ok"}]

\* ---- watcher.rs
should_sync_event(path) ==
    IF is_hidden(path) THEN FALSE
    ELSE LET ext == extension(path) IN
         IF ext # None
         THEN to_lowercase(ext[1]) \in
                {"md", "markdown", "mdown", "mkdn", "mkd", "mdwn", "mdtxt", "mdtext", "text",
                 "jpg", "jpeg", "png", "gif", "svg", "webp", "bmp", "ico"}
         ELSE FALSE

\* ---- file_transfer.rs, start_transfer: where the receiver puts a file.
\* Here a path is [absolute, comps], comps the sequence of its components,
\* ".." among them.
\* Path::join: an absolute argument replaces the path it is joined to.
path_join(base_path, path) ==
    IF path.absolute THEN path
    ELSE [absolute |-> base_path.absolute, comps |-> base_path.comps \o path.comps]

\* format!("{}.tmp", file_path): the last component with ".tmp" after it
with_tmp(path) ==
    [path EXCEPT !.comps = SubSeq(@, 1, Len(@) - 1) \o <<<<@[Len(@)], ".tmp">>>>]

\* base_path.join(&header.path) with no check of header.path, and the
\* staging path next to it.
start_transfer_paths(base_path, header_path) ==
    LET file_path == path_join(base_path, header_path)
    IN  [file_path |-> file_path, temp_path |-> with_tmp(file_path)]

\* The directory entry the operating system reaches for a path: each ".."
\* leaves the directory reached so far (the root is its own parent).
RECURSIVE resolve(_, _)
resolve(comps, reached) ==
    IF comps = <<>> THEN reached
    ELSE IF Head(comps) = ".."
    THEN resolve(Tail(comps), SubSeq(reached, 1, Len(reached) - 1))
    ELSE resolve(Tail(comps), Append(reached, Head(comps)))

\* ---- main.rs, the file watching task: whether an event for this path makes
\* the task call perform_sync.  The event is printed and not looked at.
watch_event(path, elapsed, locked) == elapsed /\ ~locked

\* No connection: the state of the server and of the client before either
\* has done anything.
NetIdle ==
    /\ srv = "vps"
    /\ hpc = "read"
    /\ srv_files = <<>>
    /\ srv_metadata = <<>>
    /\ srv_disk = <<>>
    /\ srv_clients = {}
    /\ srv_devices = {}
    /\ nin = NoMessage
    /\ nout = <<>>
    /\ authed = FALSE
    /\ strayed = FALSE
    /\ handled = 0
    /\ ClientInit

PeerStart ==
    /\ delivered < MaxMsgs
    /\ \E m \in StartMsgs : receive_file_iter(m, <<>>)
    /\ delivered' = delivered + 1
    /\ UNCHANGED <<svars, dvars, xvars, nvars>>
PeerChunk ==
    /\ delivered < MaxMsgs
    /\ \E m \in ChunkMsgs : receive_file_iter(m, <<>>)
    /\ delivered' = delivered + 1
    /\ UNCHANGED <<svars, dvars, xvars, nvars>>
PeerComplete ==
    /\ delivered < MaxMsgs
    /\ \E id \in Ids : receive_file_iter(CompleteTransfer(id), <<>>)
    /\ delivered' = delivered + 1
    /\ UNCHANGED <<svars, dvars, xvars, nvars>>
PeerError ==
    /\ delivered < MaxMsgs
    /\ \E id \in Ids : receive_file_iter(TransferError(id, <<"peer", 0>>), <<>>)
    /\ delivered' = delivered + 1
    /\ UNCHANGED <<svars, dvars, xvars, nvars>>
PeerAck ==
    /\ delivered < MaxMsgs
    /\ \E id \in Ids : receive_file_iter(AckChunk(id, 0), <<>>)
    /\ delivered' = delivered + 1
    /\ UNCHANGED <<svars, dvars, xvars, nvars>>
PeerClose ==
    /\ delivered < MaxMsgs
    /\ receive_file_iter(ReadEof, <<>>)
    /\ delivered' = delivered + 1
    /\ UNCHANGED <<svars, dvars, xvars, nvars>>
PeerGarbage ==
    /\ delivered < MaxMsgs
    /\ receive_file_iter(ReadGarbage, <<>>)
    /\ delivered' = delivered + 1
    /\ UNCHANGED <<svars, dvars, xvars, nvars>>
PeerReset ==
    /\ delivered < MaxMsgs
    /\ receive_file_iter(ReadIoError, <<>>)
    /\ delivered' = delivered + 1
    /\ UNCHANGED <<svars, dvars, xvars, nvars>>
RecvCall ==
    /\ receive_file(<<>>)
    /\ UNCHANGED <<delivered, svars, dvars, xvars, nvars>>

vars == <<rvars, svars, delivered, dvars, nvars, xvars>>

RecvNext ==
    \/ RecvCall
    \/ PeerStart
    \/ PeerChunk
    \/ PeerComplete
    \/ PeerError
    \/ PeerAck
    \/ PeerClose
    \/ PeerGarbage
    \/ PeerReset

InitIdle ==
    /\ RecvInit
    /\ SendInit
    /\ delivered = 0
    /\ snapA = << >>
    /\ snapB = << >>
    /\ dres = NoDiff
    /\ NetIdle
    /\ LockInit
    /\ AuthInit
    /\ call = NoCall
    /\ ret = NoRet


SpecRecv == InitIdle /\ [][RecvNext]_vars

\* ---------------------------------------------------------------- SpecLock
\* Two connections to the server, each served by its own task, each client
\* sending what it likes and reading its socket when it likes.
Variants == {"Handshake", "SyncRequest", "FileRequest", "FileTransfer", "Heartbeat"}

LockRest == UNCHANGED <<rvars, svars, delivered, dvars, nvars, call, ret, avars>>

ConnRead == \E c \in Conns, variant \in Variants : conn_read(c, variant) /\ LockRest
StateLock == \E c \in Conns : state_lock(c) /\ LockRest
ConnWrite == \E c \in Conns : conn_write(c) /\ LockRest
ClientReads == \E c \in Conns : client_reads(c) /\ LockRest

LockNext == ConnRead \/ StateLock \/ ConnWrite \/ ClientReads

SpecLock == InitIdle /\ [][LockNext]_vars

\* ---------------------------------------------------------------- SpecAuth
\* One AuthManager, called in any order by two clients while time passes.
AuthRest == UNCHANGED <<rvars, svars, delivered, dvars, nvars, lkvars, call, ret>>

AuthGenerate == GenerateToken /\ AuthRest
AuthValidate == ValidateToken /\ AuthRest
AuthRevoke == RevokeToken /\ AuthRest
AuthPermissions == ValidatePermissions /\ AuthRest
AuthAddPermission == AddPermission /\ AuthRest
AuthRefresh == RefreshToken /\ AuthRest
AuthCreateSession == CreateSession /\ AuthRest
AuthTick == Tick /\ AuthRest

AuthNext ==
    \/ AuthGenerate
    \/ AuthValidate
    \/ AuthRevoke
    \/ AuthPermissions
    \/ AuthAddPermission
    \/ AuthRefresh
    \/ AuthCreateSession
    \/ AuthTick

SpecAuth == InitIdle /\ [][AuthNext]_vars


\* --------------------------------------------------------------- SpecCalls
\* The functions of the program that depend on their arguments alone, each
\* called once on arguments drawn from the sets below.

\* A text of k lines, each the one character ch and a line feed.
Text(k, ch) == [i \in 1..(2 * k) |-> IF i % 2 = 1 THEN ch ELSE LF]
Bodies == {Text(k, ch) : k \in 0..MaxLines, ch \in {"a", "b"}}

\* A preamble block, its closing delimiter followed by a line feed.
Preamble(ch) == Dashes \o <<LF, ch, LF>> \o Dashes \o <<LF>>
Preambles == {<<>>, Preamble("t"), Preamble("u")}
Docs == {pre \o Text(k, ch) : pre \in Preambles, k \in 0..2, ch \in {"a", "b"}}

MergeCalls ==
    {[fn |-> "merge_text_content", local |-> l, remote |-> r, base |-> b] :
        l \in Bodies, r \in Bodies, b \in Bodies}
    \cup
    {[fn |-> "merge_markdown_content", local |-> l, remote |-> r, base |-> b] :
        l \in Docs, r \in Docs, b \in Docs}
    \cup
    {[fn |-> "merge_markdown_files_with_conflict_resolution",
      local |-> l, remote |-> r, base |-> b,
      local_modified |-> t[1], remote_modified |-> t[2]] :
        l \in Bodies, r \in Bodies, b \in Bodies, t \in {<<0, 1>>, <<1, 0>>, <<1, 1>>}}

\* File names, directory names and the paths made of them.
FileNames ==
    {<<"note", "md">>, <<"note", "MD">>, <<"notes", "txt">>, <<"pic", "png">>,
     <<"pic", "tiff">>, <<"main", "rs">>, <<"README">>, <<"Makefile">>, <<"x", "bin">>,
     <<"", "gitignore">>, <<"", "draft", "md">>}
DirNames == {<<"docs">>, <<"", "obsidian">>}
Paths == {<<f>> : f \in FileNames} \cup {<<d, f>> : d \in DirNames, f \in FileNames}

\* Trees of up to MaxFiles files.
MaxFiles == 3
TreePaths ==
    {<<<<"note", "md">>>>, <<<<"notes", "txt">>>>, <<<<"docs">>, <<"pic", "png">>>>,
     <<<<"x", "bin">>>>, <<<<"", "obsidian">>, <<"note", "md">>>>,
     <<<<"", "gitignore">>>>, <<<<"docs">>, <<"", "eslintrc", "json">>>>}
Trees ==
    UNION {[ps -> {"ok", "err"}] : ps \in {qs \in SUBSET TreePaths : Cardinality(qs) <= MaxFiles}}

PathCalls ==
    {[fn |-> "should_sync_event", path |-> q] : q \in Paths}
    \cup
    {[fn |-> "watch_event", path |-> q, elapsed |-> e, locked |-> k] :
        q \in Paths, e \in BOOLEAN, k \in BOOLEAN}
    \cup
    {[fn |-> "index_directory", tree |-> t] : t \in Trees}

\* The base_path a receiver is given and the path strings of headers: plain
\* names, paths with ".." that stay inside or leave, and absolute paths.
BasePath == [absolute |-> TRUE, comps |-> <<"home", "sync">>]
HeaderPaths ==
    {[absolute |-> FALSE, comps |-> c] :
        c \in {<<"a.md">>, <<"docs", "a.md">>, <<"docs", "..", "a.md">>,
               <<"..", "a.md">>, <<"docs", "..", "..", "a.md">>,
               <<"..", "sync", "a.md">>}}
    \cup
    {[absolute |-> TRUE, comps |-> c] :
        c \in {<<"etc", "a.md">>, <<"home", "sync", "a.md">>, <<"home", "other", "a.md">>}}
TransferCalls ==
    {[fn |-> "start_transfer", base_path |-> BasePath, path |-> h] : h \in HeaderPaths}

Calls == MergeCalls \cup PathCalls \cup TransferCalls

Invoke(c) ==
    CASE c.fn = "merge_text_content" ->
           merge_text_content(c.local, c.remote, c.base)
      [] c.fn = "merge_markdown_content" ->
           merge_markdown_content(c.local, c.remote, c.base)
      [] c.fn = "merge_markdown_files_with_conflict_resolution" ->
           merge_markdown_files_with_conflict_resolution(
               c.local, c.remote, c.base, c.local_modified, c.remote_modified)
      [] c.fn = "should_sync_event" -> should_sync_event(c.path)
      [] c.fn = "watch_event" -> watch_event(c.path, c.elapsed, c.locked)
      [] c.fn = "index_directory" -> index_directory(c.tree)
      [] c.fn = "start_transfer" -> start_transfer_paths(c.base_path, c.path)

InitCalls ==
    /\ RecvInit
    /\ SendInit
    /\ delivered = 0
    /\ snapA = << >>
    /\ snapB = << >>
    /\ dres = NoDiff
    /\ NetIdle
    /\ LockInit
    /\ AuthInit
    /\ call \in Calls
    /\ ret = NoRet

Call ==
    /\ ret = NoRet
    /\ ret' = [fn |-> call.fn, value |-> Invoke(call)]
    /\ UNCHANGED <<call, lkvars, avars, rvars, svars, delivered, dvars, nvars>>

CallsNext == Call

SpecCalls == InitCalls /\ [][CallsNext]_vars

\* -------------------------------------------- a sender and any peer at all
SendFiles == [name : Names, data : SendData]
\* What the sender's read of the stream can return while it waits.
Replies ==
    {AckChunk(id, index) : id \in Ids, index \in 0..MaxChunks}
    \cup {TransferError(id, <<"Checksum mismatch for chunk", 0>>) : id \in Ids}
    \cup {CompleteTransfer(id) : id \in Ids}
    \cup {ReadEof, ReadGarbage, ReadIoError}

SendCall ==
    /\ \E file \in SendFiles, id \in Ids : send_file(file, id)
    /\ UNCHANGED <<rvars, delivered, dvars, xvars, nvars>>
SendChunk ==
    /\ send_chunk
    /\ UNCHANGED <<rvars, delivered, dvars, xvars, nvars>>
SendComplete ==
    /\ send_complete
    /\ UNCHANGED <<rvars, delivered, dvars, xvars, nvars>>
SendReply ==
    /\ \E reply \in Replies : send_wait(reply)
    /\ UNCHANGED <<rvars, delivered, dvars, xvars, nvars>>

SendNext ==
    \/ SendCall
    \/ SendChunk
    \/ SendComplete
    \/ SendReply

SpecSend == InitIdle /\ [][SendNext]_vars

\* ------------------------------- send_file against receive_file on a stream
\* The stream is reliable and ordered and keeps the messages apart: a read
\* returns the bytes of the oldest unread message, as many as the reader's
\* buffer holds.  The receiver reads zero bytes once the sender has returned
\* and everything written has been read.
E2ESendReply ==
    /\ s2c # <<>>
    /\ send_wait(ReadInto(AckBufLen, Head(s2c)))
    /\ s2c' = Tail(s2c)
    /\ UNCHANGED <<active, fs, inodes, rpc, rres, ev, verified, aborted, delivered,
                   dvars, xvars, nvars>>
E2ERecvCall ==
    /\ rres = NoResult
    /\ receive_file(s2c)
    /\ UNCHANGED <<svars, delivered, dvars, xvars, nvars>>
E2ERecvStep ==
    /\ c2s # <<>>
    /\ receive_file_iter(ReadInto(RecvBufLen, Head(c2s)), s2c)
    /\ c2s' = Tail(c2s)
    /\ UNCHANGED <<spc, sfile, transfer_id, pos, chunk_index, bytes_sent,
                   bytes_read, sin, sres, delivered, dvars, xvars, nvars>>
E2ERecvEof ==
    /\ c2s = <<>>
    /\ spc = "done"
    /\ receive_file_iter(ReadEof, s2c)
    /\ UNCHANGED <<svars, delivered, dvars, xvars, nvars>>

E2ENext ==
    \/ SendCall
    \/ SendChunk
    \/ SendComplete
    \/ E2ESendReply
    \/ E2ERecvCall
    \/ E2ERecvStep
    \/ E2ERecvEof

SpecE2E == InitIdle /\ [][E2ENext]_vars

\* ------------------------------------------------ the snapshot comparisons
InitDiff ==
    /\ RecvInit
    /\ SendInit
    /\ delivered = 0
    /\ snapA \in Snapshots
    /\ snapB \in Snapshots
    /\ dres = NoDiff
    /\ NetIdle
    /\ LockInit
    /\ AuthInit
    /\ call = NoCall
    /\ ret = NoRet


\* indexer.get_file_changes(&old_state): snapA is old_state, snapB the
\* snapshot index_directory takes.
CallGetFileChanges ==
    /\ \E ocur \in Orders, oold \in Orders :
          dres' = DiffResult("get_file_changes",
                             get_file_changes(snapB, snapA, ocur, oold), <<>>)
    /\ UNCHANGED <<snapA, snapB, rvars, svars, delivered, nvars, xvars>>
\* engine.calculate_sync_operations(&local, &remote): snapA local, snapB remote.
CallCalculateSync ==
    /\ \E olocal \in Orders, oremote \in Orders :
          dres' = DiffResult("calculate_sync_operations",
                             calculate_sync_operations(snapA, snapB, olocal, oremote),
                             <<>>)
    /\ UNCHANGED <<snapA, snapB, rvars, svars, delivered, nvars, xvars>>
CallCalculateBidirectional ==
    /\ \E olocal \in Orders, oremote \in Orders :
          LET r == calculate_bidirectional_sync(snapA, snapB, olocal, oremote)
          IN  dres' = DiffResult("calculate_bidirectional_sync",
                                 r.local_operations, r.remote_operations)
    /\ UNCHANGED <<snapA, snapB, rvars, svars, delivered, nvars, xvars>>

\* A SyncRequest with the file list snapA arrives at a server whose files
\* are snapB: the operations of the SyncResponse.
VpsSyncRequest ==
    /\ \E oclient \in Orders, oserver \in Orders :
          dres' = DiffResult("vps_server",
                     calculate_sync_operations_for_client(snapA, snapB, oclient, oserver),
                     <<>>)
    /\ UNCHANGED <<snapA, snapB, rvars, svars, delivered, nvars, xvars>>
NetSyncRequest ==
    /\ dres' = DiffResult("network", handle_connection_operations(snapA), <<>>)
    /\ UNCHANGED <<snapA, snapB, rvars, svars, delivered, nvars, xvars>>

DiffNext ==
    \/ CallGetFileChanges
    \/ CallCalculateSync
    \/ CallCalculateBidirectional
    \/ VpsSyncRequest
    \/ NetSyncRequest

SpecDiff == InitDiff /\ [][DiffNext]_vars

\* ------------------------------------------ a server and any client at all
\* The most envelopes a connection handler parses in one behaviour.
MaxEnvelopes == 3

RecordOf(path, content, modified) ==
    [path |-> path, hash |-> blake3(content), modified |-> modified, device_id |-> ClientId]
\* The file lists of the SyncRequests, and the files of the FileTransfers.
RequestFiles ==
    {<<>>,
     Put(<<>>, "a.md", RecordOf("a.md", Payload(1), 1)),
     Put(<<>>, "b.md", RecordOf("b.md", Payload(0), MaxTime))}
TransferEnvelopes ==
    {FileTransfer(n, c, RecordOf(n, c, MaxTime)) : n \in Names, c \in Contents}
\* Envelopes of the variants a server sends and never expects.
StrayEnvelopes ==
    {HandshakeResponse(TRUE, ClientId), SyncResponse(<<>>),
     FileResponse("a.md", FALSE, None, None)}

\* The server has started and a client has connected.
InitSync ==
    /\ RecvInit
    /\ SendInit
    /\ delivered = 0
    /\ snapA = << >>
    /\ snapB = << >>
    /\ dres = NoDiff
    /\ ServerInit
    /\ ClientInit
    /\ LockInit
    /\ AuthInit
    /\ call = NoCall
    /\ ret = NoRet


SrvHandshake ==
    /\ handled < MaxEnvelopes
    /\ \E d \in Devices : server_handle(Handshake(d))
    /\ UNCHANGED <<rvars, svars, delivered, dvars, xvars, ncvars, chvars>>
SrvSyncRequest ==
    /\ handled < MaxEnvelopes
    /\ \E files \in RequestFiles : server_handle(SyncRequest(ClientId, files))
    /\ UNCHANGED <<rvars, svars, delivered, dvars, xvars, ncvars, chvars>>
SrvFileRequest ==
    /\ handled < MaxEnvelopes
    /\ \E n \in Names : server_handle(FileRequest(n))
    /\ UNCHANGED <<rvars, svars, delivered, dvars, xvars, ncvars, chvars>>
SrvFileTransfer ==
    /\ handled < MaxEnvelopes
    /\ \E m \in TransferEnvelopes : server_handle(m)
    /\ UNCHANGED <<rvars, svars, delivered, dvars, xvars, ncvars, chvars>>
SrvHeartbeat ==
    /\ handled < MaxEnvelopes
    /\ server_handle(Heartbeat)
    /\ UNCHANGED <<rvars, svars, delivered, dvars, xvars, ncvars, chvars>>
SrvStray ==
    /\ handled < MaxEnvelopes
    /\ \E m \in StrayEnvelopes : server_handle(m)
    /\ UNCHANGED <<rvars, svars, delivered, dvars, xvars, ncvars, chvars>>
SrvClose ==
    /\ \E m \in {ReadEof, ReadGarbage, ReadIoError} : server_handle(m)
    /\ UNCHANGED <<rvars, svars, delivered, dvars, xvars, ncvars, chvars>>

ServerNext ==
    \/ SrvHandshake
    \/ SrvSyncRequest
    \/ SrvFileRequest
    \/ SrvFileTransfer
    \/ SrvHeartbeat
    \/ SrvStray
    \/ SrvClose

SpecServer == InitSync /\ [][ServerNext]_vars

\* ------------------------------------------ a client and any server at all
\* What a peer can put on the stream the client reads.
ClientReplies ==
    {HandshakeResponse(TRUE, ServerId), HandshakeResponse(FALSE, ServerId),
     SyncResponse(<<>>), SyncResponse(<<Add(StoredRecord)>>),
     SyncResponse(<<Delete("a.md")>>),
     SyncResponse(<<Update(StoredRecord), Delete("a.md")>>),
     Heartbeat, ReadEof, ReadGarbage, ReadIoError,
     StartTransfer("t1", "a.md", 0, 0),
     StartTransfer("t1", "a.md", PayloadLen, 1),
     Chunk("t1", 0, Payload(0), blake3(Payload(0))),
     Chunk("t1", 0, FlipBit(Payload(0)), blake3(Payload(0))),
     CompleteTransfer("t1")}

CliHandshakeWrite ==
    /\ send_handshake_write
    /\ UNCHANGED <<svars, delivered, dvars, xvars, nsvars, chvars>>
CliHandshakeReply ==
    /\ delivered < MaxMsgs
    /\ \E reply \in ClientReplies : send_handshake_read(reply)
    /\ delivered' = delivered + 1
    /\ UNCHANGED <<svars, dvars, xvars, nsvars, chvars>>
CliTrigger ==
    /\ \E task \in Tasks, elapsed \in BOOLEAN : trigger(task, elapsed)
    /\ UNCHANGED <<svars, delivered, dvars, xvars, nsvars, chvars>>
CliSyncWrite ==
    /\ \E task \in Tasks, written \in BOOLEAN : perform_sync_write(task, written)
    /\ UNCHANGED <<svars, delivered, dvars, xvars, nsvars, chvars>>
CliSyncReply ==
    /\ delivered < MaxMsgs
    /\ \E task \in Tasks, reply \in ClientReplies : perform_sync_read(task, reply)
    /\ delivered' = delivered + 1
    /\ UNCHANGED <<svars, dvars, xvars, nsvars, chvars>>
CliSyncOp ==
    /\ \E task \in Tasks : perform_sync_op(task)
    /\ UNCHANGED <<svars, delivered, dvars, xvars, nsvars, chvars>>
CliRecvReply ==
    /\ delivered < MaxMsgs
    /\ \E task \in Tasks, reply \in ClientReplies : perform_sync_recv(task, reply)
    /\ delivered' = delivered + 1
    /\ UNCHANGED <<svars, dvars, xvars, nsvars, chvars>>

ClientNext ==
    \/ CliHandshakeWrite
    \/ CliHandshakeReply
    \/ CliTrigger
    \/ CliSyncWrite
    \/ CliSyncReply
    \/ CliSyncOp
    \/ CliRecvReply

SpecClient == InitIdle /\ [][ClientNext]_vars

\* ------------------------------------------ the client against a server
\* What a read of the stream returns: the oldest envelope written by the
\* other side, or, when there is none and the connection is gone, end of
\* stream or an error; a read of an open and silent connection waits.
StreamReads(queue) ==
    IF queue # <<>> THEN {Head(queue)}
    ELSE IF conn = "closed" THEN {ReadEof, ReadIoError}
    ELSE {}
Consumed(queue) == IF queue # <<>> THEN Tail(queue) ELSE queue
\* write_all: the bytes reach the other side while the connection is open.
Written(queue, out) == IF conn = "open" THEN queue \o out ELSE queue
\* Whether write_all can report success: always on an open connection; on
\* one the peer has left, the first writes may still succeed.
WriteOutcomes == IF conn = "open" THEN {TRUE} ELSE BOOLEAN

SyncHandshakeWrite ==
    /\ send_handshake_write
    /\ c2sq' = Written(c2sq, cout')
    /\ UNCHANGED <<s2cq, conn, svars, delivered, dvars, xvars, nsvars>>
SyncHandshakeReply ==
    /\ \E reply \in StreamReads(s2cq) : send_handshake_read(reply)
    /\ s2cq' = Consumed(s2cq)
    /\ UNCHANGED <<c2sq, conn, svars, delivered, dvars, xvars, nsvars>>
SyncRequestWrite ==
    /\ \E task \in Tasks, written \in WriteOutcomes : perform_sync_write(task, written)
    /\ c2sq' = Written(c2sq, cout')
    /\ UNCHANGED <<s2cq, conn, svars, delivered, dvars, xvars, nsvars>>
SyncResponseRead ==
    /\ \E task \in Tasks, reply \in StreamReads(s2cq) : perform_sync_read(task, reply)
    /\ s2cq' = Consumed(s2cq)
    /\ UNCHANGED <<c2sq, conn, svars, delivered, dvars, xvars, nsvars>>
SyncReceive ==
    /\ \E task \in Tasks, reply \in StreamReads(s2cq) : perform_sync_recv(task, reply)
    /\ s2cq' = Consumed(s2cq)
    /\ c2sq' = Written(c2sq, cout')
    /\ UNCHANGED <<conn, svars, delivered, dvars, xvars, nsvars>>
\* The server's handler reads; when it returns, its end of the stream is
\* dropped.
SyncServerRead ==
    /\ handled < MaxEnvelopes
    /\ \E message \in StreamReads(c2sq) : server_handle(AsNetworkMessage(message))
    /\ c2sq' = Consumed(c2sq)
    /\ s2cq' = Written(s2cq, nout')
    /\ conn' = IF hpc' = "closed" THEN "closed" ELSE conn
    /\ UNCHANGED <<rvars, svars, delivered, dvars, xvars, ncvars>>
\* The network loses the connection.
SyncDrop ==
    /\ conn = "open"
    /\ conn' = "closed"
    /\ UNCHANGED <<c2sq, s2cq, rvars, svars, delivered, dvars, xvars, nsvars, ncvars>>

SyncNext ==
    \/ SyncHandshakeWrite
    \/ SyncHandshakeReply
    \/ CliTrigger
    \/ SyncRequestWrite
    \/ SyncResponseRead
    \/ CliSyncOp
    \/ SyncReceive
    \/ SyncServerRead
    \/ SyncDrop

SpecSync == InitSync /\ [][SyncNext]_vars

\* ================================================================ claims
\* What is at a path: nothing, or a file with its bytes.
FileAt(f, ino, p) == IF p \in DOMAIN f THEN <<"file", ino[f[p]].data>> ELSE <<"absent">>

\* C1: when send_file runs against receive_file on a reliable, ordered stream,
\* receive_file ends with the sender's file committed at the final path,
\* byte for byte, whatever the size of the file.
C1_RoundTrip ==
    (rpc = "idle" /\ rres # NoResult)
        => FileAt(fs, inodes, FinalPath(sfile.name)) = <<"file", sfile.data>>

\* C2: what is at a final path changes only in the step that commits a
\* transfer to that path which has received its declared number of chunks;
\* a transfer that has received fewer creates or changes nothing there.
C2_NoPartialAtFinalPath ==
    [][\A n \in Names :
          FileAt(fs', inodes', FinalPath(n)) # FileAt(fs, inodes, FinalPath(n))
            => /\ ev'.kind = "commit"
               /\ active[ev'.id].path = FinalPath(n)
               /\ active[ev'.id].chunks_received = active[ev'.id].total_chunks]_vars

\* C3: once a chunk of a transfer has failed the digest check, no later
\* message commits a file for that transfer id.
C3_NoCommitAfterMismatch ==
    [][ev'.kind = "commit" => ev'.id \notin aborted]_vars

\* C4: a CompleteTransfer for an active transfer whose received count differs
\* from the declared count returns the incomplete-transfer error, renames
\* nothing and leaves every path as it was.
CompleteKinds == {"incomplete", "commit", "rename_failed", "complete_ignored"}
C5_AllIndicesBeforeCommit ==
    [][ev'.kind = "commit"
         => \A i \in 0..(active[ev'.id].total_chunks - 1) : i \in verified[ev'.id]]_vars

\* C6: the sender is about to send the next chunk, or has sent
\* CompleteTransfer, only when every chunk sent so far was answered by the
\* AckChunk with its transfer id and index.
C6_AdvanceOnlyOnAck ==
    (spc = "read" \/ (spc = "done" /\ sres = Ok)) => bytes_sent = pos

\* C7: a StartTransfer whose id is already active leaves the transfer in
\* flight as it was: destination, declared size, declared chunk count,
\* received count and the staging file.
C7_StartKeepsActive ==
    [][\A id \in DOMAIN active :
          (ev'.kind = "start" /\ ev'.id = id)
            => /\ active'[id].path = active[id].path
               /\ active'[id].size = active[id].size
               /\ active'[id].total_chunks = active[id].total_chunks
               /\ active'[id].chunks_received = active[id].chunks_received
               /\ inodes'[active'[id].inode].data = inodes[active[id].inode].data]_vars

\* The operations of a list that are about path q.
OpsFor(ops, q) == SelectSeq(ops, LAMBDA o : OpPath(o) = q)

\* C8: get_file_changes returns exactly one operation for each path that
\* differs between the old and the current snapshot (Add of the current
\* record, Update of the current record, or Delete of the path) and none
\* for a path whose digest is the same in both.
C8_DiffExact ==
    dres.fn = "get_file_changes" =>
        \A q \in Names :
            OpsFor(dres.ops, q) =
                IF q \in DOMAIN snapB
                THEN (IF q \notin DOMAIN snapA THEN <<Add(snapB[q])>>
                      ELSE IF snapB[q].hash # snapA[q].hash THEN <<Update(snapB[q])>>
                      ELSE <<>>)
                ELSE (IF q \in DOMAIN snapA THEN <<Delete(q)>> ELSE <<>>)
\* One path changed and one deleted.
C8_Witness ==
    /\ dres.fn = "get_file_changes"
    /\ DOMAIN snapA = Names
    /\ DOMAIN snapB = {"a.md"}
    /\ snapA["a.md"].hash # snapB["a.md"].hash
    /\ snapA["a.md"].modified = snapB["a.md"].modified
    /\ dres.ops = <<Update(snapB["a.md"]), Delete("b.md")>>

\* C9: a snapshot compared with itself gives no operations, from
\* get_file_changes, calculate_sync_operations and both lists of
\* calculate_bidirectional_sync.
C9_SelfDiffEmpty ==
    (dres.fn # "none" /\ snapA = snapB) => (dres.ops = <<>> /\ dres.remote_ops = <<>>)
C9_Witness ==
    /\ dres.fn = "calculate_sync_operations"
    /\ snapA = snapB
    /\ DOMAIN snapA = Names
    /\ dres.ops = <<>>

\* C10: for a path in both snapshots with differing digests and equal
\* modified timestamps the local record is selected:
\* calculate_sync_operations emits Update(local record);
\* calculate_bidirectional_sync emits Update(local record) in the remote
\* side's list and nothing for the path in the local side's list.
Tie(q) ==
    /\ q \in DOMAIN snapA
    /\ q \in DOMAIN snapB
    /\ snapA[q].hash # snapB[q].hash
    /\ snapA[q].modified = snapB[q].modified
C10_TieSelectsLocal ==
    \A q \in Names : Tie(q) =>
        /\ dres.fn = "calculate_sync_operations"
              => OpsFor(dres.ops, q) = <<Update(snapA[q])>>
        /\ dres.fn = "calculate_bidirectional_sync"
              => /\ OpsFor(dres.remote_ops, q) = <<Update(snapA[q])>>
                 /\ OpsFor(dres.ops, q) = <<>>
C10_Witness ==
    /\ dres.fn = "calculate_bidirectional_sync"
    /\ Tie("a.md")
    /\ snapA["a.md"] # snapB["a.md"]
    /\ dres.remote_ops = <<Update(snapA["a.md"])>>
    /\ dres.ops = <<>>

\* C11: for a path in both snapshots with differing digests and different
\* modified timestamps, calculate_bidirectional_sync emits exactly one
\* operation for the path: Update(record with the later timestamp), in the
\* list of the side that holds the older record, and nothing for the path
\* in the other list.
Newer(q) ==
    /\ q \in DOMAIN snapA
    /\ q \in DOMAIN snapB
    /\ snapA[q].hash # snapB[q].hash
    /\ snapA[q].modified # snapB[q].modified
C11_NewerWinsOnLosingSide ==
    dres.fn = "calculate_bidirectional_sync" =>
        \A q \in Names : Newer(q) =>
            IF snapB[q].modified > snapA[q].modified
            THEN /\ OpsFor(dres.ops, q) = <<Update(snapB[q])>>
                 /\ OpsFor(dres.remote_ops, q) = <<>>
            ELSE /\ OpsFor(dres.remote_ops, q) = <<Update(snapA[q])>>
                 /\ OpsFor(dres.ops, q) = <<>>
\* The remote record of a.md is the later one.
C11_Witness ==
    /\ dres.fn = "calculate_bidirectional_sync"
    /\ Newer("a.md")
    /\ snapB["a.md"].modified > snapA["a.md"].modified
    /\ OpsFor(dres.ops, "a.md") = <<Update(snapB["a.md"])>>
    /\ OpsFor(dres.remote_ops, "a.md") = <<>>

\* C12: for a path in exactly one of the two snapshots given to
\* calculate_bidirectional_sync, the list of the side lacking the path
\* contains Add(the path's record), and the list of the side that has the
\* path contains no operation for it.
C12_OneSidedAdd ==
    dres.fn = "calculate_bidirectional_sync" =>
        \A q \in Names :
            /\ (q \in DOMAIN snapB /\ q \notin DOMAIN snapA)
                  => /\ \E i \in DOMAIN dres.ops : dres.ops[i] = Add(snapB[q])
                     /\ OpsFor(dres.remote_ops, q) = <<>>
            /\ (q \in DOMAIN snapA /\ q \notin DOMAIN snapB)
                  => /\ \E i \in DOMAIN dres.remote_ops :
                            dres.remote_ops[i] = Add(snapA[q])
                     /\ OpsFor(dres.ops, q) = <<>>
\* a.md on both sides, b.md on the remote side only.
C12_Witness ==
    /\ dres.fn = "calculate_bidirectional_sync"
    /\ DOMAIN snapA = {"a.md"}
    /\ DOMAIN snapB = Names
    /\ snapA["a.md"].hash = snapB["a.md"].hash
    /\ \E i \in DOMAIN dres.ops : dres.ops[i] = Add(snapB["b.md"])
    /\ dres.remote_ops = <<>>

\* C13: calculate_sync_operations and calculate_bidirectional_sync, which
\* are given the two snapshots and no prior common snapshot, emit no
\* Delete for a path that is present on one side and absent on the other.
IsDelete(o) == o.op = "Delete"
C13_NoDeleteWithoutHistory ==
    dres.fn \in {"calculate_sync_operations", "calculate_bidirectional_sync"} =>
        /\ SelectSeq(dres.ops, IsDelete) = <<>>
        /\ SelectSeq(dres.remote_ops, IsDelete) = <<>>

\* C14: the operations of a server's SyncResponse are what the requester
\* should apply: Add(server record) for a path only on the server,
\* Update(server record) for a path on both with differing digests whose
\* server record has the later modified time, and nothing for any other
\* path.
C14_ResponseIsReconciliation ==
    dres.fn \in {"vps_server", "network"} =>
        \A q \in Names :
            OpsFor(dres.ops, q) =
                IF q \in DOMAIN snapB /\ q \notin DOMAIN snapA
                THEN <<Add(snapB[q])>>
                ELSE IF q \in DOMAIN snapB /\ q \in DOMAIN snapA
                        /\ snapA[q].hash # snapB[q].hash
                        /\ snapB[q].modified > snapA[q].modified
                THEN <<Update(snapB[q])>>
                ELSE <<>>
\* The server's record of a.md is the later one, within the same second:
\* the vps server's response has nothing for a.md.
C14_Witness ==
    /\ dres.fn = "vps_server"
    /\ "a.md" \in DOMAIN snapA
    /\ "a.md" \in DOMAIN snapB
    /\ snapA["a.md"].hash # snapB["a.md"].hash
    /\ snapB["a.md"].modified > snapA["a.md"].modified
    /\ Version(snapB["a.md"]) = Version(snapA["a.md"])
    /\ OpsFor(dres.ops, "a.md") = <<>>

\* ---------------------------------------------------------------- C16
ServedTypes == {"SyncRequest", "FileRequest", "FileTransfer"}
\* The handler parsed an envelope in this step.
Parsed == handled' = handled + 1
\* C16: on a server connection no SyncRequest, FileRequest or FileTransfer
\* is served before a Handshake was accepted on it: a step that parses one
\* of them on a connection without an accepted Handshake writes no response
\* and leaves the server's files, metadata, disk and registries as they were.
C16_NoServiceBeforeHandshake ==
    [][(Parsed /\ nin'.type \in ServedTypes /\ ~authed)
         => /\ nout' = <<>>
            /\ UNCHANGED <<srv_files, srv_metadata, srv_disk, srv_clients, srv_devices>>]_vars
\* A file was stored through a connection that never sent a Handshake.
C16_Witness ==
    /\ ~authed
    /\ nin.type = "FileTransfer"
    /\ "b.md" \in DOMAIN srv_files
    /\ "b.md" \in DOMAIN srv_disk

\* ---------------------------------------------------------------- C17
\* C17: an envelope of a variant that is not valid at a server
\* (HandshakeResponse, SyncResponse, FileResponse) ends the connection: the
\* step that reads it leaves the handler closed, and once one was read the
\* handler parses no later envelope.
C17_StrayEnvelopeCloses ==
    [][/\ (Parsed /\ strayed') => hpc' = "closed"
       /\ strayed => handled' = handled]_vars
\* After a stray envelope the handler served a later SyncRequest.
C17_Witness ==
    /\ strayed
    /\ hpc = "read"
    /\ nin.type = "SyncRequest"
    /\ nout # <<>>

Accepted(r) == IF r.type = "HandshakeResponse" THEN r.accepted ELSE FALSE
\* C18, as the code has it: send_handshake returns Ok, and registers the
\* peer's device, if and only if the reply is a HandshakeResponse with
\* accepted = true. Otherwise it registers nothing, writes nothing more and
\* sync_folder returns; the error is Network for a rejection and for any
\* other NetworkMessage, Serialization for bytes that are no NetworkMessage
\* (none, malformed, or a transfer message), Io for a failed read. After
\* the failure the client writes nothing and starts no sync.
C18_HandshakeOutcome ==
    /\ [][cpc = "handshake"
            => /\ cres'.ok <=> Accepted(cin')
               /\ cres'.ok => (cdevices' = cdevices \cup {cin'.device_id} /\ cpc' = "running")
               /\ ~cres'.ok => (cdevices' = cdevices /\ cpc' = "exit" /\ cout' = <<>>)
               /\ (~cres'.ok /\ cin'.type \in NetworkTypes) => cres'.kind = "Network"
               /\ cin'.type = "ioerror" => cres'.kind = "Io"
               /\ cin'.type \notin NetworkTypes \cup {"ioerror"}
                    => cres'.kind = "Serialization"]_vars
    /\ [](cpc = "exit" => (/\ cout = <<>>
                           /\ cdevices = {}
                           /\ lock = "free"
                           /\ \A t \in Tasks : tpc[t] = "idle"))
\* The handshake was rejected: a Network error, nothing registered, the
\* client gone.
C18_Witness ==
    /\ cin = HandshakeResponse(FALSE, ServerId)
    /\ cres = Err("Network", "Handshake rejected")
    /\ cpc = "exit"
    /\ cdevices = {}
\* C18 as stated: every reply that is not an accepted HandshakeResponse
\* gives a Network error (a read that brings no reply at all, end of stream
\* or a failed read, is left aside).
C18_AnyOtherReplyIsNetworkError ==
    [][(cpc = "handshake" /\ cin' \notin {ReadEof, ReadIoError})
         => IF Accepted(cin')
            THEN cres' = Ok /\ cin'.device_id \in cdevices'
            ELSE /\ cres'.kind = "Network"
                 /\ cdevices' = cdevices
                 /\ cout' = <<>>]_vars

\* ---------------------------------------------------------------- C20
\* C20: the watcher task and the periodic task are never inside
\* perform_sync at the same time (a task inside it holds the lock); a
\* trigger gets the lock only when it is free, and a trigger that finds it
\* held is skipped: it does not wait, reads nothing, writes nothing, and
\* leaves the lock, both tasks and the files as they were.
C20_SyncsDoNotOverlap ==
    /\ [](\A t \in Tasks : tpc[t] # "idle" => lock = t)
    /\ [][/\ cev'.kind = "acquired" => (lock = "free" /\ lock' = cev'.task)
          /\ cev'.kind = "skipped"
               => /\ lock \in Tasks \ {cev'.task}
                  /\ cout' = <<>>
                  /\ cin' = NoMessage
                  /\ UNCHANGED <<lock, tpc, tops, rvars, cdevices, cpc>>]_vars
\* The watcher's trigger was skipped while the periodic sync waits inside
\* receive_file.
C20_Witness ==
    /\ cev = ClientEvent("watcher", "skipped")
    /\ lock = "periodic"
    /\ tpc["periodic"] = "recv"
    /\ tpc["watcher"] = "idle"

\* ---------------------------------------------------------------- C15
\* The client is inside receive_file for an Add or Update and waits for a
\* message, while the server's handler waits for the next envelope: the
\* connection is open and nothing is in flight in either direction.
MutualWait ==
    /\ \E t \in Tasks : tpc[t] = "recv" /\ tops[t] # <<>>
    /\ rpc = "loop"
    /\ hpc = "read"
    /\ conn = "open"
    /\ c2sq = <<>>
    /\ s2cq = <<>>
\* C15: after a SyncResponse with Add or Update operations the responder
\* sends, and the requester receives, one transfer per operation, and the
\* sync attempt ends; the two sides are never left waiting for each other.
C15_NoMutualWait == ~MutualWait
\* The periodic sync waits inside receive_file for the transfer of a.md,
\* the server waits for an envelope, and the watcher's trigger is skipped.
C15_Witness ==
    /\ MutualWait
    /\ srv = "vps"
    /\ tpc["periodic"] = "recv"
    /\ Head(tops["periodic"]) = Add(StoredRecord)
    /\ cev = ClientEvent("watcher", "skipped")

\* ---------------------------------------------------------------- C23
\* The messages of a type among those the sender has written.
Sent(type) == SelectSeq(c2s, LAMBDA m : m.type = type)
\* C23: when send_file reads a TransferError in reply to a chunk it
\* returns an error at once, without writing anything; and once it has
\* returned it writes no Chunk and no CompleteTransfer any more.
C23_AbortOnTransferError ==
    /\ [][(spc = "wait" /\ sin'.type = "TransferError")
            => (spc' = "done" /\ ~sres'.ok /\ sres' # NoResult /\ c2s' = c2s)]_vars
    /\ [][spc = "done" => c2s' = c2s]_vars
    /\ []((spc = "done" /\ sin.type = "TransferError") => Sent("CompleteTransfer") = <<>>)
\* A TransferError came in reply to the second chunk: two chunks were
\* written, no CompleteTransfer, and the caller has the error.
C23_Witness ==
    /\ spc = "done"
    /\ sin.type = "TransferError"
    /\ sres.kind = "Network"
    /\ Len(Sent("Chunk")) = 2
    /\ Sent("CompleteTransfer") = <<>>

\* ---------------------------------------------------------------- C24
\* ceil(size / CHUNK_SIZE), without the program's rounding trick.
Ceil(size) == IF size % CHUNK_SIZE = 0 THEN size \div CHUNK_SIZE ELSE size \div CHUNK_SIZE + 1
\* C24: the StartTransfer header declares chunks = ceil(size / 65536); the
\* chunks written so far are indexed 0, 1, ... in order, never more than
\* declared, each of 65536 bytes except possibly the last declared one; and
\* a send_file that returns Ok has written exactly the declared number of
\* chunks, which are the file cut at multiples of 65536, and then
\* CompleteTransfer: a file of no bytes declares 0 chunks and sends none.
C24_ChunkCount ==
    spc # "idle" =>
        LET header == Sent("StartTransfer")[1]
            chunks == Sent("Chunk")
            size   == BLen(sfile.data)
        IN  /\ Len(Sent("StartTransfer")) = 1
            /\ header.size = size
            /\ header.chunks = Ceil(size)
            /\ Len(chunks) <= header.chunks
            /\ \A i \in 1..Len(chunks) :
                  /\ chunks[i].chunk_index = i - 1
                  /\ chunks[i].data = BTake(BDrop(sfile.data, (i - 1) * CHUNK_SIZE), CHUNK_SIZE)
                  /\ i < header.chunks => BLen(chunks[i].data) = CHUNK_SIZE
                  /\ BLen(chunks[i].data) \in 1..CHUNK_SIZE
            /\ sres = Ok => (/\ Len(chunks) = header.chunks
                             /\ c2s[Len(c2s)].type = "CompleteTransfer"
                             /\ Len(Sent("CompleteTransfer")) = 1)
\* A file of one chunk and one byte was sent in two chunks and completed.
C24_Witness ==
    /\ sres = Ok
    /\ BLen(sfile.data) = CHUNK_SIZE + 1
    /\ Len(Sent("Chunk")) = 2
    /\ BLen(Sent("Chunk")[2].data) = 1
\* A file of no bytes was completed with no chunk sent.
C24_WitnessEmpty ==
    /\ sres = Ok
    /\ sfile.data = <<>>
    /\ Sent("StartTransfer")[1].chunks = 0
    /\ Sent("Chunk") = <<>>

\* ---------------------------------------------------------------- C30
\* C30: the step that finds a chunk's digest different from the declared
\* one writes a TransferError for that transfer naming the chunk index and
\* nothing else (no ack), leaves every file as it was (nothing appended,
\* the staging file still there), and removes the transfer from the active
\* set, so that later messages for that id find nothing to act on.
C30_MismatchAborts ==
    [][ev'.kind = "chunk_bad"
         => /\ Len(s2c') = 1
            /\ s2c'[1].type = "TransferError"
            /\ s2c'[1].transfer_id = ev'.id
            /\ s2c'[1].error[1] = "Checksum mismatch for chunk"
            /\ fs' = fs
            /\ inodes' = inodes
            /\ ev'.id \notin DOMAIN active']_vars
\* After a failed digest check of t1 a later chunk of t1 was appended to
\* the staging file and acknowledged.
C30_Witness ==
    /\ "t1" \in aborted
    /\ ev = Event("chunk_ok", "t1")
    /\ s2c = <<AckChunk("t1", 0)>>
    /\ active["t1"].chunks_received = 1

\* C21: no connection task holds the server-state lock while it is suspended
\* on a network read or write.  A task is suspended in stream.read, and in
\* write_all for as long as its client leaves the socket full.
Suspended(c) == kpc[c] = "read" \/ (kpc[c] = "write" /\ sendbuf[c] = SockCap)

C21_NoLockAcrossAwait == \A c \in Conns : Suspended(c) => c \notin readers

\* c1's client has stopped reading; c1's task is in write_all with its read
\* guard, and c2's task, first in the queue, cannot have the write lock.
C21_Witness ==
    \E c, d \in Conns :
        /\ c # d
        /\ kpc[c] = "write" /\ sendbuf[c] = SockCap /\ c \in readers
        /\ kpc[d] = "lock" /\ Head(waiters) = d /\ LockMode(kmsg[d]) = "exclusive"
        /\ ~ENABLED state_lock(d)

\* C22: applying a SyncOperation a second time gives the result and the end
\* state of applying it once; in particular perform_sync's Delete(p), when p
\* is already absent, succeeds and changes nothing.
DeleteOfAbsent(task) ==
    /\ tpc[task] = "ops" /\ tops[task] # <<>>
    /\ Head(tops[task]).op = "Delete"
    /\ FinalPath(Head(tops[task]).path) \notin DOMAIN fs
    /\ cev'.task = task /\ cev'.kind \in {"delete", "delete_failed"}

C22_DeleteOfAbsentSucceeds ==
    [][\A task \in Tasks :
          DeleteOfAbsent(task)
            => /\ cev'.kind = "delete"
               /\ tops'[task] = Tail(tops[task])
               /\ fs' = fs]_vars

\* A sync whose response told it to delete a path that is not there has
\* ended in an error and given the lock back.
C22_Witness ==
    /\ cev.kind = "delete_failed"
    /\ cin = NoMessage
    /\ FinalPath("a.md") \notin DOMAIN fs
    /\ lock = "free"

\* C25: the body merge gives conflict-marker output holding both versions if
\* and only if the local body and the remote body each differ from the
\* ancestor body by more than two lines.
HasMarkers(text) ==
    /\ find(text, LocalMarker) # None
    /\ find(text, MiddleMarker) # None
    /\ find(text, RemoteMarker) # None

LineDifference(content, base) ==
    LET d == lines_count(content) - lines_count(base) IN IF d < 0 THEN -d ELSE d

C25_MarkersIffBothSignificant ==
    ret.fn = "merge_text_content"
      => (HasMarkers(ret.value)
            <=> /\ LineDifference(call.local, call.base) > 2
                /\ LineDifference(call.remote, call.base) > 2)

\* Markers although each side differs from the ancestor by one line; and no
\* markers although each side differs from an empty ancestor by three.
C25_Witness ==
    /\ ret.fn = "merge_text_content"
    /\ HasMarkers(ret.value)
    /\ LineDifference(call.local, call.base) = 1
    /\ LineDifference(call.remote, call.base) = 1

C25_WitnessEmptyAncestor ==
    /\ ret.fn = "merge_text_content"
    /\ ~HasMarkers(ret.value)
    /\ call.base = <<>>
    /\ LineDifference(call.local, call.base) > 2
    /\ LineDifference(call.remote, call.base) > 2

\* C26: when the body merge gives no conflict markers, the merged body is the
\* body of whichever side changed relative to the ancestor, and when neither
\* changed it is the local body followed by the remote body.
C26_PrefersChangedSide ==
    (ret.fn = "merge_text_content" /\ ~HasMarkers(ret.value))
      => /\ (call.local # call.base /\ call.remote = call.base) => ret.value = call.local
         /\ (call.remote # call.base /\ call.local = call.base) => ret.value = call.remote
         /\ (call.local = call.base /\ call.remote = call.base)
              => ret.value = call.local \o call.remote

\* Only the remote side changed, in a line and not in the number of lines,
\* and the merged body is the unchanged local one.
C26_Witness ==
    /\ ret.fn = "merge_text_content"
    /\ call.base # <<>>
    /\ call.local = call.base
    /\ call.remote # call.base
    /\ ret.value = call.local

\* Neither side changed, and the merged body is the body once.
C26_WitnessUnchanged ==
    /\ ret.fn = "merge_text_content"
    /\ call.base # <<>>
    /\ call.local = call.base /\ call.remote = call.base
    /\ ret.value = call.base

\* C27: merge_markdown_content takes the preamble of the remote content when
\* that is not empty and of the local content otherwise; when the local and
\* the remote body both equal the ancestor body, the result is that preamble,
\* with one opening and one closing delimiter, followed by the shared body
\* once, without conflict markers.  Read back, the result has that preamble
\* and that body.
C27_PreambleThenSharedBody ==
    ret.fn = "merge_markdown_content"
      => LET l == extract_frontmatter(call.local)
             r == extract_frontmatter(call.remote)
             b == extract_frontmatter(call.base)
             preamble == IF r.frontmatter # <<>> THEN r.frontmatter ELSE l.frontmatter
             out == extract_frontmatter(ret.value)
         IN  /\ out.frontmatter = preamble
             /\ (l.body = b.body /\ r.body = b.body)
                  => /\ out.body = b.body
                     /\ ~HasMarkers(ret.value)
                     /\ find(ret.value, Dashes \o Dashes) = None

\* The local content has no preamble, the remote one has, the bodies are the
\* ancestor's, and the preamble of the result closes with six dashes.
C27_Witness ==
    /\ ret.fn = "merge_markdown_content"
    /\ extract_frontmatter(call.local).frontmatter = <<>>
    /\ extract_frontmatter(call.remote).frontmatter # <<>>
    /\ extract_frontmatter(call.base).body # <<>>
    /\ extract_frontmatter(call.local).body = extract_frontmatter(call.base).body
    /\ extract_frontmatter(call.remote).body = extract_frontmatter(call.base).body
    /\ ret.value = extract_frontmatter(call.remote).frontmatter
                     \o Dashes \o <<LF, LF>> \o extract_frontmatter(call.base).body

\* C28: an index pass in which some eligible files cannot be read succeeds,
\* and its snapshot holds every other eligible readable file under the root.
Eligible(path) == walked(path) /\ should_sync_file(path)

C28_UnreadableFilesAreSkipped ==
    ret.fn = "index_directory"
      => /\ ret.value.ok
         /\ \A q \in DOMAIN call.tree :
              (Eligible(q) /\ call.tree[q] = "ok") => q \in ret.value.local_files
         /\ \A q \in ret.value.local_files :
              q \in DOMAIN call.tree /\ Eligible(q) /\ call.tree[q] = "ok"

\* One eligible file could not be read and another is in the snapshot.
C28_Witness ==
    /\ ret.fn = "index_directory"
    /\ \E q \in DOMAIN call.tree : Eligible(q) /\ call.tree[q] = "err"
    /\ ret.value.ok
    /\ ret.value.local_files # {}

\* C29: a filesystem event starts a sync attempt exactly when its path is
\* eligible under the indexer's policy: should_sync_event agrees with the
\* indexer's hidden-path rule and should_sync_file on every path, and the
\* watch task calls perform_sync for no event whose path is ineligible.
C29_EventsFollowIndexerPolicy ==
    /\ ret.fn = "should_sync_event" => (ret.value <=> Eligible(call.path))
    /\ ret.fn = "watch_event" => (ret.value => Eligible(call.path))

\* The watcher's filter refuses a file the indexer takes.
C29_Witness ==
    /\ ret.fn = "should_sync_event"
    /\ ~ret.value
    /\ Eligible(call.path)

\* The watcher's filter takes a file the indexer never reaches.
C29_WitnessHiddenDirectory ==
    /\ ret.fn = "should_sync_event"
    /\ ret.value
    /\ ~Eligible(call.path)

\* The watch task syncs on an event for a file that is not eligible.
C29_WitnessWatchTask ==
    /\ ret.fn = "watch_event"
    /\ ret.value
    /\ ~Eligible(call.path)

\* C31: for every chunk of an active transfer whose digest verifies, the
\* receiver appends the payload to the staging file, adds exactly one to
\* chunks_received and sends exactly one AckChunk with that transfer id and
\* chunk index; no other step counts a chunk or sends an AckChunk; so the
\* count is the number of chunks appended through the transfer's handle.
Acks(out) == SelectSeq(out, LAMBDA m : m.type = "AckChunk")

ServerLeft == hpc = "closed" /\ nin.type \notin {"eof", "garbage", "ioerror"}

C32_SyncAfterHandshakeServed ==
    /\ [](authed => ~ServerLeft)
    /\ [][\A task \in Tasks :
            (/\ tpc[task] = "response" /\ tpc'[task] # "response"
             /\ cin'.type \notin {"eof", "ioerror"})
              => cin'.type = "SyncResponse"]_vars

\* The handshake was accepted and the server's handler returned after it;
\* the client has written its SyncRequest to a connection nobody reads and
\* expects the response.
C32_Witness ==
    /\ srv = "net"
    /\ cres = Ok
    /\ ServerLeft /\ nin.type = "Handshake" /\ handled = 1
    /\ conn = "closed"
    /\ \E task \in Tasks : tpc[task] = "response"

\* C33: when each side applies, in list order, the operations that
\* calculate_bidirectional_sync assigns to it, with the content at hand for
\* every Add and Update, both sides end with the same digest at every path.
RECURSIVE ApplyAll(_, _, _)
ApplyAll(self_id, operations, files) ==
    IF operations = <<>> THEN files
    ELSE ApplyAll(self_id, Tail(operations),
                  apply_sync_operation(self_id, Head(operations), files, Some(Payload(0))))

Digests(files) == [q \in DOMAIN files |-> files[q].hash]

C33_BothSidesConverge ==
    dres.fn = "calculate_bidirectional_sync"
      => Digests(ApplyAll("devA", dres.ops, snapA))
           = Digests(ApplyAll("devB", dres.remote_ops, snapB))

\* a.md exists on the local side only: the remote side is told to add it
\* and then to delete it, and ends without the file the local side keeps.
C33_Witness ==
    /\ dres.fn = "calculate_bidirectional_sync"
    /\ DOMAIN snapA = {"a.md"} /\ snapB = << >>
    /\ dres.ops = <<>>
    /\ dres.remote_ops = <<Add(snapA["a.md"]), Delete("a.md")>>
    /\ ApplyAll("devB", dres.remote_ops, snapB) = << >>
    /\ ApplyAll("devA", dres.ops, snapA) = snapA

\* C34: receive_file returns to its caller once the CompleteTransfer of the
\* transfer it received has been processed, without the peer having to
\* close the connection, so that perform_sync goes on to its next operation.
C34_ReturnsAfterComplete ==
    [][ev'.kind = "commit"
         => /\ rpc' = "idle" /\ rres' = Ok
            /\ \A task \in Tasks :
                  tpc[task] = "recv"
                    => tpc'[task] = "ops" /\ tops'[task] = Tail(tops[task])]_vars

\* The transfer for the first of two operations is committed, and the task
\* is still inside receive_file, reading.
C34_Witness ==
    /\ ev = Event("commit", "t1")
    /\ rpc = "loop"
    /\ rres = NoResult
    /\ \E task \in Tasks : tpc[task] = "recv" /\ Len(tops[task]) = 2

\* C35: every envelope send_file emits, a Chunk with a full 65536-byte
\* payload included, is read and parsed by receive_file as one message: its
\* serialized length is within the receiver's buffer of CHUNK_SIZE + 1024
\* bytes, and no read of receive_file fails to parse.
C35_EnvelopeFitsOneRead ==
    /\ [](\A i \in DOMAIN c2s : JsonLen(c2s[i]) <= RecvBufLen)
    /\ [][ev'.kind # "parse_error"]_vars

\* The one chunk of a 65536-byte file, longer as JSON than the buffer, has
\* been read, and receive_file has returned the parse error.
C35_Witness ==
    /\ BLen(sfile.data) = CHUNK_SIZE
    /\ ev = Event("parse_error", "")
    /\ rpc = "idle"
    /\ rres = Err("Serialization", "")
    /\ FinalPath(sfile.name) \notin DOMAIN fs

\* C36: no two transfers that are active at the same time write to the same
\* staging file: two transfers with different ids never hold handles on one
\* file, so the chunks of one never end up in the file another commits.
C36_NoSharedStaging ==
    \A i \in DOMAIN active : \A j \in DOMAIN active :
        i # j => active[i].inode # active[j].inode

\* t1, which declared no chunks, has been committed to a.md, and the file
\* now at a.md is the one t2 holds open and has written its chunk to.
C36_Witness ==
    /\ ev = Event("commit", "t1")
    /\ "t2" \in DOMAIN active
    /\ active["t2"].chunks_received = 1
    /\ FinalPath("a.md") \in DOMAIN fs
    /\ fs[FinalPath("a.md")] = active["t2"].inode
    /\ inodes[active["t2"].inode].data = Payload(0)

\* C37: every staging file and final file a receiver creates or renames lies
\* under the base_path it was given, whatever path string the StartTransfer
\* header carries, an absolute path or one with ".." components included.
Under(base_path, path) ==
    LET at == resolve(path.comps, <<>>)
        base == resolve(base_path.comps, <<>>)
    IN  /\ path.absolute = base_path.absolute
        /\ Len(at) > Len(base)
        /\ SubSeq(at, 1, Len(base)) = base

C37_StaysUnderBasePath ==
    ret.fn = "start_transfer"
      => /\ Under(call.base_path, ret.value.file_path)
         /\ Under(call.base_path, ret.value.temp_path)

\* A header path with ".." puts the file in the parent of base_path.
C37_Witness ==
    /\ ret.fn = "start_transfer"
    /\ ~call.path.absolute
    /\ resolve(ret.value.file_path.comps, <<>>) = <<"home", "a.md">>
    /\ ~Under(call.base_path, ret.value.temp_path)

\* An absolute header path replaces base_path altogether.
C37_WitnessAbsolute ==
    /\ ret.fn = "start_transfer"
    /\ call.path.absolute
    /\ ret.value.file_path = call.path
    /\ ~Under(call.base_path, ret.value.file_path)

\* C38: the dotfiles that should_sync_dotfile lists as files to sync
\* (.gitignore, .gitattributes, .editorconfig, .env.example and the others)
\* are in the snapshot index_directory returns whenever they exist as
\* readable files under the sync root.
ListedDotfile(path) == is_hidden(path) /\ should_sync_dotfile(path)

C38_ListedDotfilesIndexed ==
    ret.fn = "index_directory"
      => \A q \in DOMAIN call.tree :
            (ListedDotfile(q) /\ call.tree[q] = "ok") => q \in ret.value.local_files

\* .gitignore is a readable file at the root, should_sync_file accepts it,
\* and the snapshot does not have it.
C38_Witness ==
    /\ ret.fn = "index_directory"
    /\ <<<<"", "gitignore">>>> \in DOMAIN call.tree
    /\ call.tree[<<<<"", "gitignore">>>>] = "ok"
    /\ should_sync_file(<<<<"", "gitignore">>>>)
    /\ <<<<"", "gitignore">>>> \notin ret.value.local_files

\* C39: validate_token returns a token only when, as the call begins, the
\* token is in the map, not revoked and not past its expiry; and neither
\* validate_token nor validate_permissions accepts a token that was revoked
\* or had expired before the call, whatever generate_token, refresh_token,
\* add_permission, validate_token or session calls came in between.
TokenAccepted(r) == r.fn \in {"validate_token", "validate_permissions"} /\ r.value
C39_DeadTokensStayDead ==
    [][/\ (aret'.fn = "validate_token" /\ aret'.value) =>
              /\ aret'.token \in DOMAIN tokens
              /\ ~tokens[aret'.token].is_revoked
              /\ ~(now > tokens[aret'.token].expires_at)
       /\ TokenAccepted(aret') => aret'.token \notin dead]_vars

\* A token that expired unrevoked and is still in the map, given "admin"
\* by add_permission, with a later token generated, is refused by
\* validate_permissions.
C39_Witness ==
    /\ aret.fn = "validate_permissions"
    /\ ~aret.value
    /\ aret.token \in DOMAIN tokens
    /\ aret.token \in dead
    /\ ~tokens[aret.token].is_revoked
    /\ tokens[aret.token].permissions = Permissions
    /\ issued > aret.token

====
